---- MODULE Spec2Model ----
(***************************************************************************)
(* Model of the Terraform provider for the WALLIX Bastion REST API:        *)
(*   bastion/resource_application.go                                       *)
(*   bastion/resource_externalauth_ldap.go                                 *)
(*   bastion/resource_device_localdomain_account_credential.go             *)
(*   the localpasswordpolicy data source (unnamed/part_000)                *)
(*                                                                         *)
(* Each handler (Create, Read, Update, Delete, Import) is a sequence of    *)
(* steps, one per call of c.newRequest; a step issues the call, interprets *)
(* the answer as the Go code does and either ends the handler or moves to  *)
(* the next call.  The appliance is the environment: it holds the records  *)
(* and answers every call with a transport error, an unexpected status or  *)
(* the answer its contents dictate.                                        *)
(***************************************************************************)
EXTENDS Integers, Sequences, FiniteSets, TLC

(***************************************************************************)
(* Bounds of the model.                                                    *)
(***************************************************************************)
\* handler invocations per reconciler in one behaviour
MaxOps == 2
\* records the appliance holds at most
MaxRemote == 2
\* ids the appliance hands out at most
MaxIds == 3

Procs == {1, 2}

Kinds == {"application", "ldap", "credential", "policy"}

(***************************************************************************)
(* API versions.  The two definitions below live in files of the provider  *)
(* that are not part of the sources at hand.                               *)
(***************************************************************************)
versionValidate3_3 == "v3.3"

defaultVersionsValid == {"v3.3", "v3.6"}

Versions == {"v3.3", "v3.6", "v2.0"}

(***************************************************************************)
(* net/http status codes used by the handlers.                             *)
(***************************************************************************)
StatusOK == 200

StatusNoContent == 204

StatusNotFound == 404

StatusInternalServerError == 500

(***************************************************************************)
(* Go values.  A slice is nil or holds elements; json.Marshal writes a nil *)
(* slice as null and a non-nil one as an array, and omits a nil pointer    *)
(* tagged omitempty.                                                       *)
(***************************************************************************)
NilSlice == [nil |-> TRUE, elems |-> <<>>]

MakeSlice(s) == [nil |-> FALSE, elems |-> s]

\* append(slice, v): appending to a nil slice allocates it
AppendSlice(sl, v) == [nil |-> FALSE, elems |-> Append(sl.elems, v)]

\* the wire form of a slice field without omitempty
jsonForm(sl) == IF sl.nil THEN "null" ELSE "array"

Range(s) == {s[i] : i \in 1..Len(s)}

\* (*schema.Set).List(): the elements in the set's own deterministic order
RECURSIVE SetList(_)
SetList(S) ==
  IF S = {} THEN <<>>
  ELSE LET x == CHOOSE y \in S : TRUE
       IN <<x>> \o SetList(S \ {x})

\* strings.Join of atoms: the string a token sequence spells
RECURSIVE Join(_)
Join(toks) == IF toks = <<>> THEN "" ELSE Head(toks) \o Join(Tail(toks))

\* strings.Split(s, "/") over the tokens of s: a token is "/" or a run of
\* characters without "/".  n separators give n+1 segments, empty ones kept.
RECURSIVE SplitFrom(_, _, _)
SplitFrom(toks, cur, acc) ==
  IF toks = <<>> THEN Append(acc, cur)
  ELSE IF Head(toks) = "/" THEN SplitFrom(Tail(toks), "", Append(acc, cur))
  ELSE SplitFrom(Tail(toks), cur \o Head(toks), acc)

\* a split that drops the empty segments, as strings.FieldsFunc would
Split_DropEmpty(toks) ==
  SelectSeq(SplitFrom(toks, "", <<>>), LAMBDA seg : seg # "")

Split(toks) == SplitFrom(toks, "", <<>>)

\* strings.HasPrefix(s, "generate:") over the values the model uses
HasPrefixGenerate(s) == s \in {"generate:", "generate:RSA_2048"}

(***************************************************************************)
(* Application: values.                                                    *)
(***************************************************************************)
\* var result jsonApplication: the zero value
zeroJsonApplication ==
  [ID |-> "", ApplicationName |-> "", ConnectionPolicy |-> "",
   Description |-> "", Parameters |-> "", Target |-> "",
   GlobalDomains |-> NilSlice, Paths |-> NilSlice,
   LocalDomains |-> [nil |-> TRUE, elems |-> <<>>]]

\* a ResourceData of the application schema with nothing set
blankApplication ==
  [id |-> "", application_name |-> "", connection_policy |-> "",
   paths |-> {}, target |-> "", description |-> "", global_domains |-> {},
   parameters |-> "", local_domains |-> <<>>]

PathA == [target |-> "acc@dom", program |-> "calc.exe", working_dir |-> ""]

PathB == [target |-> "acc@dom", program |-> "cmd.exe", working_dir |-> "C:\\"]

\* configurations a user declares for an application
ApplicationConfigs ==
  { [blankApplication EXCEPT !.application_name = "app1",
       !.connection_policy = "RDP", !.paths = {PathA}, !.target = "tgt"],
    [blankApplication EXCEPT !.application_name = "app2",
       !.connection_policy = "RDP", !.paths = {PathA, PathB}, !.target = "tgt",
       !.description = "desc", !.parameters = "prm"],
    [blankApplication EXCEPT !.application_name = "app1",
       !.connection_policy = "RDP", !.paths = {PathA}, !.target = "tgt",
       !.global_domains = {"gd1"}] }

\* json.Marshal of a local domain's password_change_plugin_parameters
jsonMarshalParameters(blob) == IF blob.nil THEN "null" ELSE "{}"

\* a local domain as the appliance reports it
LocalDomainA ==
  [ID |-> "ld1", AdminAccount |-> "adm", DomainName |-> "local",
   Description |-> "", EnablePasswordChange |-> FALSE,
   PasswordChangePolicy |-> "", PasswordChangePlugin |-> "",
   PasswordChangePluginParameters |-> [nil |-> FALSE]]

(***************************************************************************)
(* Application: codec.                                                     *)
(***************************************************************************)
\* the loop over d.Get("paths").(*schema.Set).List()
RECURSIVE appendPaths(_, _)
appendPaths(sl, list) ==
  IF list = <<>> THEN sl
  ELSE appendPaths(AppendSlice(sl, [Target |-> Head(list).target,
                                    Program |-> Head(list).program,
                                    WorkingDir |-> Head(list).working_dir]),
                   Tail(list))

\* d.Get("global_domains").([]interface{}): the value of a TypeSet attribute
\* is a *schema.Set, so the single-value type assertion panics
globalDomainsAssertion(set) == [panicked |-> TRUE, list |-> <<>>]

RECURSIVE appendStrings(_, _)
appendStrings(sl, list) ==
  IF list = <<>> THEN sl ELSE appendStrings(AppendSlice(sl, Head(list)), Tail(list))

prepareApplicationJSON(dd) ==
  LET jsonData == [zeroJsonApplication EXCEPT
                     !.ApplicationName = dd.application_name,
                     !.ConnectionPolicy = dd.connection_policy,
                     !.Description = dd.description,
                     !.Parameters = dd.parameters,
                     !.Target = dd.target,
                     !.Paths = appendPaths(NilSlice, SetList(dd.paths))]
  IN IF Len(SetList(dd.global_domains)) > 0
     THEN LET a == globalDomainsAssertion(dd.global_domains)
          IN IF a.panicked
             THEN [panicked |-> TRUE, json |-> jsonData]
             ELSE [panicked |-> FALSE,
                   json |-> [jsonData EXCEPT
                               !.GlobalDomains = appendStrings(NilSlice, a.list)]]
     ELSE [panicked |-> FALSE,
           json |-> [jsonData EXCEPT !.GlobalDomains = MakeSlice(<<>>)]]

\* the loop over *jsonData.LocalDomains
fillLocalDomains(elems) ==
  [i \in 1..Len(elems) |->
     [id |-> elems[i].ID,
      admin_account |-> elems[i].AdminAccount,
      domain_name |-> elems[i].DomainName,
      description |-> elems[i].Description,
      enable_password_change |-> elems[i].EnablePasswordChange,
      password_change_policy |-> elems[i].PasswordChangePolicy,
      password_change_plugin |-> elems[i].PasswordChangePlugin,
      password_change_plugin_parameters |->
        jsonMarshalParameters(elems[i].PasswordChangePluginParameters)]]

\* the d.Set calls cannot fail on values of the schema's types; the one panic
\* left is the dereference of a nil LocalDomains, after the other fields are set
fillApplication(dd, jsonData) ==
  LET d1 == [dd EXCEPT
               !.application_name = jsonData.ApplicationName,
               !.connection_policy = jsonData.ConnectionPolicy,
               !.paths = {[target |-> v.Target, program |-> v.Program,
                           working_dir |-> v.WorkingDir] :
                          v \in Range(jsonData.Paths.elems)},
               !.target = jsonData.Target,
               !.description = jsonData.Description,
               !.global_domains = Range(jsonData.GlobalDomains.elems),
               !.parameters = jsonData.Parameters]
  IN IF jsonData.LocalDomains.nil
     THEN [panicked |-> TRUE, d |-> d1]
     ELSE [panicked |-> FALSE,
           d |-> [d1 EXCEPT !.local_domains =
                              fillLocalDomains(jsonData.LocalDomains.elems)]]

\* a gate that lets every version of defaultVersionsValid through
resourceApplicationVersionCheck_AnyDefault(v) ==
  IF v \in defaultVersionsValid THEN "" ELSE "version"

resourceApplicationVersionCheck(v) ==
  IF v = versionValidate3_3 THEN "" ELSE "version"

(***************************************************************************)
(* LDAP external authentication: values and codec.                         *)
(***************************************************************************)
zeroJsonExternalAuthLdap ==
  [IsActiveDirectory |-> FALSE, IsAnonymousAccess |-> FALSE,
   IsProtectedUser |-> FALSE, IsSSL |-> FALSE, IsStartTLS |-> FALSE,
   UsePrimaryAuthDomain |-> FALSE, Port |-> 0, Timeout |-> 0, ID |-> "",
   AuthenticationName |-> "", CACertificate |-> "", Certificate |-> "",
   CNAttribute |-> "", Description |-> "", LDAPBase |-> "", Login |-> "",
   LoginAttribute |-> "", Host |-> "", Password |-> "", PrivateKey |-> "",
   Type |-> ""]

blankExternalAuthLdap ==
  [id |-> "", authentication_name |-> "", cn_attribute |-> "", host |-> "",
   ldap_base |-> "", login_attribute |-> "", port |-> 0, timeout |-> 0,
   ca_certificate |-> "", certificate |-> "", description |-> "",
   is_active_directory |-> FALSE, is_anonymous_access |-> FALSE,
   is_protected_user |-> FALSE, is_ssl |-> FALSE, is_starttls |-> FALSE,
   login |-> "", password |-> "", private_key |-> "",
   use_primary_auth_domain |-> FALSE]

\* configurations a user declares for an LDAP external authentication
ExternalAuthLdapConfigs ==
  { [blankExternalAuthLdap EXCEPT
       !.authentication_name = "ldap1", !.cn_attribute = "cn", !.host = "ldap.local",
       !.ldap_base = "dc=local", !.login_attribute = "uid", !.port = 389,
       !.timeout = 10, !.login = "binder", !.password = "secret"],
    [blankExternalAuthLdap EXCEPT
       !.authentication_name = "ldap1", !.cn_attribute = "cn", !.host = "ldap.local",
       !.ldap_base = "dc=local", !.login_attribute = "uid", !.port = 636,
       !.timeout = 5, !.ca_certificate = "CA", !.certificate = "CRT",
       !.description = "desc", !.is_active_directory = TRUE,
       !.is_anonymous_access = TRUE, !.is_protected_user = TRUE, !.is_ssl = TRUE,
       !.is_starttls = TRUE, !.private_key = "KEY",
       !.use_primary_auth_domain = TRUE],
    [blankExternalAuthLdap EXCEPT
       !.authentication_name = "ldap2", !.cn_attribute = "cn", !.host = "ldap.local",
       !.ldap_base = "dc=local", !.login_attribute = "uid", !.port = 389,
       !.timeout = 10, !.login = "binder"],
    [blankExternalAuthLdap EXCEPT
       !.authentication_name = "ldap1", !.cn_attribute = "cn", !.host = "ldap.local",
       !.ldap_base = "dc=local", !.login_attribute = "uid", !.port = 389,
       !.timeout = 10, !.password = "secret"] }

prepareExternalAuthLdapJSON(dd) ==
  [IsActiveDirectory |-> dd.is_active_directory,
   IsAnonymousAccess |-> dd.is_anonymous_access,
   IsProtectedUser |-> dd.is_protected_user,
   IsSSL |-> dd.is_ssl,
   IsStartTLS |-> dd.is_starttls,
   UsePrimaryAuthDomain |-> dd.use_primary_auth_domain,
   Timeout |-> dd.timeout,
   ID |-> "",
   AuthenticationName |-> dd.authentication_name,
   CACertificate |-> dd.ca_certificate,
   Certificate |-> dd.certificate,
   CNAttribute |-> dd.cn_attribute,
   Description |-> dd.description,
   LDAPBase |-> dd.ldap_base,
   Login |-> dd.login,
   LoginAttribute |-> dd.login_attribute,
   Host |-> dd.host,
   Password |-> dd.password,
   Port |-> dd.port,
   PrivateKey |-> dd.private_key,
   Type |-> "LDAP"]

fillExternalAuthLdap(dd, json) ==
  [dd EXCEPT
     !.cn_attribute = json.CNAttribute,
     !.host = json.Host,
     !.ldap_base = json.LDAPBase,
     !.login = json.Login,
     !.login_attribute = json.LoginAttribute,
     !.port = json.Port,
     !.timeout = json.Timeout,
     !.ca_certificate = json.CACertificate,
     !.certificate = json.Certificate,
     !.description = json.Description,
     !.is_active_directory = json.IsActiveDirectory,
     !.is_anonymous_access = json.IsAnonymousAccess,
     !.is_protected_user = json.IsProtectedUser,
     !.is_ssl = json.IsSSL,
     !.is_starttls = json.IsStartTLS,
     !.private_key = json.PrivateKey,
     !.use_primary_auth_domain = json.UsePrimaryAuthDomain]

resourveExternalAuthLdapVersionCheck(v) ==
  IF v = versionValidate3_3 THEN "" ELSE "version"

\* a test that wants both of them empty
missingLoginPassword_Both(dd) ==
  ~dd.is_anonymous_access /\ (dd.login = "" /\ dd.password = "")

\* !is_anonymous_access && (login == "" || password == "")
missingLoginPassword(dd) ==
  ~dd.is_anonymous_access /\ (dd.login = "" \/ dd.password = "")

(***************************************************************************)
(* Device local domain account credential: values and codec.               *)
(***************************************************************************)
zeroJsonDeviceLocalDomainAccountCredential ==
  [ID |-> "", Type |-> "", Password |-> "", PrivateKey |-> "",
   PublicKey |-> "", Passphrase |-> ""]

blankDeviceLocalDomainAccountCredential ==
  [id |-> "", device_id |-> "", domain_id |-> "", account_id |-> "",
   type |-> "", passphrase |-> "", password |-> "", private_key |-> "",
   public_key |-> ""]

\* configurations a user declares for a credential
DeviceLocalDomainAccountCredentialConfigs ==
  { [blankDeviceLocalDomainAccountCredential EXCEPT
       !.device_id = "dev1", !.domain_id = "dom2", !.account_id = "acc3",
       !.type = "ssh_key", !.private_key = "KEY", !.passphrase = "phrase"],
    [blankDeviceLocalDomainAccountCredential EXCEPT
       !.device_id = "dev1", !.domain_id = "dom2", !.account_id = "acc3",
       !.type = "password", !.password = "secret", !.private_key = "KEY2",
       !.passphrase = "phrase2"],
    [blankDeviceLocalDomainAccountCredential EXCEPT
       !.device_id = "dev1", !.domain_id = "dom2", !.account_id = "acc3",
       !.type = "ssh_key", !.private_key = "generate:RSA_2048",
       !.password = "stray"] }

\* an encoder that sends the key of an Update whatever it starts with
prepareDeviceLocalDomainAccountCredentialJSON_AlwaysKey(dd, newResource) ==
  LET json == [zeroJsonDeviceLocalDomainAccountCredential EXCEPT !.Type = dd.type]
  IN IF json.Type = "password"
     THEN [json EXCEPT !.Password = dd.password]
     ELSE IF json.Type = "ssh_key"
          THEN [json EXCEPT !.PrivateKey = dd.private_key,
                            !.Passphrase = dd.passphrase]
          ELSE json

prepareDeviceLocalDomainAccountCredentialJSON(dd, newResource) ==
  LET json == [zeroJsonDeviceLocalDomainAccountCredential EXCEPT !.Type = dd.type]
  IN IF json.Type = "password"
     THEN [json EXCEPT !.Password = dd.password]
     ELSE IF json.Type = "ssh_key"
          THEN IF newResource \/ ~HasPrefixGenerate(dd.private_key)
               THEN [json EXCEPT !.PrivateKey = dd.private_key,
                                 !.Passphrase = dd.passphrase]
               ELSE json
          ELSE json

\* a decoder that forgets the public key
fillDeviceLocalDomainAccountCredential_NoPublicKey(dd, json) ==
  [dd EXCEPT !.type = json.Type]

fillDeviceLocalDomainAccountCredential(dd, json) ==
  [dd EXCEPT !.type = json.Type, !.public_key = json.PublicKey]

resourveDeviceLocalDomainAccountCredentialVersionCheck(v) ==
  IF v = versionValidate3_3 THEN "" ELSE "version"

\* "/devices/"+deviceID+"/localdomains/"+domainID+"/accounts/"+accountID+"/credentials/"
credentialsPath(deviceID, domainID, accountID) ==
  "/devices/" \o deviceID \o "/localdomains/" \o domainID
    \o "/accounts/" \o accountID \o "/credentials/"

(***************************************************************************)
(* Local password policy data source: values and codec.                    *)
(***************************************************************************)
zeroJsonLocalpasswordpolicy ==
  [AllowSameUserAndPassword |-> FALSE, ID |-> "", PasswordPolicyName |-> "",
   PasswordExpiration |-> 0, PasswordWarningDays |-> 0, PasswordMinLength |-> 0,
   PasswordMinLowerChars |-> 0, PasswordMinUpperChars |-> 0,
   PasswordMinDigitChars |-> 0, PasswordMinSpecialChars |-> 0,
   LastPasswordsToReject |-> 0, MaxAuthFailures |-> 0, SSHRsaMinLength |-> 0,
   ForbiddenPasswords |-> NilSlice, SSHKeyAlgosAllowed |-> NilSlice]

blankLocalpasswordpolicy ==
  [id |-> "", password_policy_name |-> "default",
   allow_same_user_and_password |-> FALSE, forbidden_passwords |-> {},
   last_passwords_to_reject |-> 0, max_auth_failures |-> 0,
   password_expiration |-> 0, password_min_digit_chars |-> 0,
   password_min_length |-> 0, password_min_lower_chars |-> 0,
   password_min_special_chars |-> 0, password_min_upper_chars |-> 0,
   password_warning_days |-> 0, ssh_key_algos_allowed |-> {},
   ssh_rsa_min_length |-> 0]

\* the names a configuration asks the data source for
LocalpasswordpolicyConfigs ==
  { blankLocalpasswordpolicy,
    [blankLocalpasswordpolicy EXCEPT !.password_policy_name = "strict"] }

fillLocalpasswordpolicy(dd, jsonData) ==
  [dd EXCEPT
     !.allow_same_user_and_password = jsonData.AllowSameUserAndPassword,
     !.password_expiration = jsonData.PasswordExpiration,
     !.password_warning_days = jsonData.PasswordWarningDays,
     !.password_min_length = jsonData.PasswordMinLength,
     !.password_min_lower_chars = jsonData.PasswordMinLowerChars,
     !.password_min_upper_chars = jsonData.PasswordMinUpperChars,
     !.password_min_digit_chars = jsonData.PasswordMinDigitChars,
     !.password_min_special_chars = jsonData.PasswordMinSpecialChars,
     !.last_passwords_to_reject = jsonData.LastPasswordsToReject,
     !.max_auth_failures = jsonData.MaxAuthFailures,
     !.ssh_rsa_min_length = jsonData.SSHRsaMinLength,
     !.forbidden_passwords = Range(jsonData.ForbiddenPasswords.elems),
     !.ssh_key_algos_allowed = Range(jsonData.SSHKeyAlgosAllowed.elems)]

\* bchk.InSlice(version, defaultVersionsValid())
dataSourceLocalpasswordpolicyVersionCheck(v) ==
  IF v \in defaultVersionsValid THEN "" ELSE "version"

(***************************************************************************)
(* State.                                                                  *)
(***************************************************************************)
VARIABLES
  kind,      \* the resource type this behaviour reconciles
  version,   \* c.bastionAPIVersion of the client
  remote,    \* the records the appliance holds, in the order it lists them
  nextId,    \* the number of the next id the appliance hands out
  active,    \* the reconcilers that run
  d,         \* d[p]: the schema.ResourceData (LocalState) of reconciler p
  given,     \* given[p]: the ResourceData as the handler received it
  op,        \* op[p]: the handler p runs
  pc,        \* pc[p]: the handler's position: idle, entry, a step, done
  result,    \* result[p]: what the handler returned
  calls,     \* calls[p]: the newRequest calls of the handler, in order
  loc,       \* loc[p]: the handler's local variables
  nops       \* nops[p]: handlers invoked so far

vars ==
  <<kind, version, remote, nextId, active, d, given, op, pc, result, calls, loc, nops>>

zeroJson(k) ==
  CASE k = "application" -> zeroJsonApplication
    [] k = "ldap" -> zeroJsonExternalAuthLdap
    [] k = "credential" -> zeroJsonDeviceLocalDomainAccountCredential
    [] k = "policy" -> zeroJsonLocalpasswordpolicy

blank(k) ==
  CASE k = "application" -> blankApplication
    [] k = "ldap" -> blankExternalAuthLdap
    [] k = "credential" -> blankDeviceLocalDomainAccountCredential
    [] k = "policy" -> blankLocalpasswordpolicy

Configs(k) ==
  CASE k = "application" -> ApplicationConfigs
    [] k = "ldap" -> ExternalAuthLdapConfigs
    [] k = "credential" -> DeviceLocalDomainAccountCredentialConfigs
    [] k = "policy" -> LocalpasswordpolicyConfigs

noLocals(k) == [id |-> "", cfg |-> zeroJson(k), key |-> <<>>, idSplit |-> <<>>]

noResult == [status |-> "none", err |-> ""]

(***************************************************************************)
(* The transport, c.newRequest, and the appliance behind it.               *)
(***************************************************************************)
Call(method, path, ep, key, where) ==
  [method |-> method, path |-> path, ep |-> ep, key |-> key, loc |-> where,
   hasBody |-> FALSE, body |-> zeroJson(kind)]

CallWithBody(method, path, ep, key, where, body) ==
  [method |-> method, path |-> path, ep |-> ep, key |-> key, loc |-> where,
   hasBody |-> TRUE, body |-> body]

Resp(err, code, shape, list, item) ==
  [err |-> err, code |-> code, shape |-> shape, list |-> list, item |-> item]

IdOf(n) == "id" \o ToString(n)

\* the record the appliance keeps for a body it accepted
Stored(body, id, old) ==
  CASE kind = "application" ->
         [body EXCEPT !.ID = id,
                      !.GlobalDomains = MakeSlice(body.GlobalDomains.elems),
                      !.Paths = MakeSlice(body.Paths.elems),
                      !.LocalDomains = IF old.LocalDomains.nil
                                       THEN [nil |-> FALSE, elems |-> <<>>]
                                       ELSE old.LocalDomains]
    [] kind = "ldap" -> [body EXCEPT !.ID = id]
    [] kind = "credential" ->
         [body EXCEPT !.ID = id,
                      !.PublicKey = IF body.Type = "ssh_key" THEN "ssh-rsa AAAA" ELSE "",
                      !.PrivateKey = IF body.PrivateKey = "" THEN old.PrivateKey
                                     ELSE body.PrivateKey,
                      !.Passphrase = IF body.PrivateKey = "" THEN old.Passphrase
                                     ELSE body.Passphrase]

\* a record as an item GET returns it
\* the appliance never returns the secrets
ItemView(rec) ==
  CASE kind = "application" -> rec
    [] kind = "ldap" -> [rec EXCEPT !.Password = "", !.PrivateKey = ""]
    [] kind = "credential" ->
         [rec EXCEPT !.Password = "", !.PrivateKey = "", !.Passphrase = ""]
    [] kind = "policy" -> rec

\* a record as a list GET returns it
ListView(rec) ==
  CASE kind = "application" ->
         [zeroJsonApplication EXCEPT !.ID = rec.ID,
                                     !.ApplicationName = rec.ApplicationName]
    [] OTHER -> ItemView(rec)

\* the records a call addresses: a collection, an item by id, the LDAP
\* authentications of a name, the password policies a q= filter selects
Matches(c, e) ==
  CASE c.ep \in {"list", "collection"} -> e.loc = c.loc
    [] c.ep = "item" -> e.loc = c.loc /\ e.rec.ID = c.key
    [] c.ep = "byname" -> e.rec.AuthenticationName = c.key
    [] c.ep = "query" -> e.rec.PasswordPolicyName = c.key
    [] c.ep = "parent" -> FALSE

Found(c) == {i \in 1..Len(remote) : Matches(c, remote[i])}

Without(i) ==
  [j \in 1..(Len(remote) - 1) |-> IF j < i THEN remote[j] ELSE remote[j + 1]]

\* the answers the appliance can give to call c, each with the contents and
\* the id counter it leaves: a transport failure or an unexpected status on
\* any call, else what the contents dictate
newRequest(c) ==
  LET same(r) == [resp |-> r, remote |-> remote, nextId |-> nextId]
      z == zeroJson(kind)
      faults == { same(Resp(TRUE, 0, "none", <<>>, z)),
                  same(Resp(FALSE, StatusInternalServerError, "garbage", <<>>, z)) }
                \cup (IF c.method = "GET"
                      THEN { same(Resp(FALSE, StatusNoContent, "none", <<>>, z)) }
                      ELSE {})
      hit == Found(c)
      first == CHOOSE i \in hit : \A j \in hit : i <= j
  IN faults \cup
     CASE c.method = "GET" /\ c.ep \in {"list", "byname", "query"} ->
            { same(Resp(FALSE, StatusOK, "array",
                        [i \in 1..Cardinality(hit) |->
                           ListView(SelectSeq(remote, LAMBDA e : Matches(c, e))[i].rec)],
                        z)),
              same(Resp(FALSE, StatusOK, "garbage", <<>>, z)) }
            \cup (IF c.ep = "byname" /\ hit = {}
                  THEN { same(Resp(FALSE, StatusNotFound, "garbage", <<>>, z)) }
                  ELSE {})
            \* q= is a search the appliance runs: it may select more than
            \* the records whose name is exactly the one asked for
            \cup (IF c.ep = "query"
                  THEN { same(Resp(FALSE, StatusOK, "array",
                                   [i \in 1..Len(remote) |-> ListView(remote[i].rec)],
                                   z)) }
                  ELSE {})
       [] c.method = "GET" /\ c.ep = "parent" ->
            { same(Resp(FALSE, StatusNotFound, "garbage", <<>>, z)),
              same(Resp(FALSE, StatusOK, "object", <<>>, [z EXCEPT !.ID = c.key])) }
       [] c.method = "GET" /\ c.ep = "item" ->
            IF hit = {}
            THEN { same(Resp(FALSE, StatusNotFound, "garbage", <<>>, z)) }
            ELSE { same(Resp(FALSE, StatusOK, "object", <<>>, ItemView(remote[first].rec))),
                   same(Resp(FALSE, StatusOK, "garbage", <<>>, z)) }
       [] c.method = "POST" ->
            IF Len(remote) < MaxRemote /\ nextId <= MaxIds
            THEN { [resp |-> Resp(FALSE, code, "none", <<>>, z),
                    remote |-> Append(remote, [rec |-> Stored(c.body, IdOf(nextId), z),
                                               loc |-> c.loc]),
                    nextId |-> nextId + 1] : code \in {StatusOK, StatusNoContent} }
            ELSE {}
       [] c.method = "PUT" ->
            IF hit = {}
            THEN { same(Resp(FALSE, StatusNotFound, "garbage", <<>>, z)) }
            ELSE { [resp |-> Resp(FALSE, code, "none", <<>>, z),
                    remote |-> [remote EXCEPT ![first] =
                                  [rec |-> Stored(c.body, c.key, remote[first].rec),
                                   loc |-> c.loc]],
                    nextId |-> nextId] : code \in {StatusOK, StatusNoContent} }
       [] c.method = "DELETE" ->
            IF hit = {}
            THEN { same(Resp(FALSE, StatusNotFound, "garbage", <<>>, z)) }
            ELSE { [resp |-> Resp(FALSE, code, "none", <<>>, z),
                    remote |-> Without(first),
                    nextId |-> nextId] : code \in {StatusOK, StatusNoContent} }

\* what a handler step leaves behind: the appliance after the call and the
\* call, with the status it was answered with, in the handler's log
Issue(p, s) ==
  IF s.sent
  THEN /\ remote' = s.env.remote
       /\ nextId' = s.env.nextId
       /\ calls' = [calls EXCEPT ![p] =
                      Append(@, [method |-> s.call.method, path |-> s.call.path,
                                 ep |-> s.call.ep,
                                 hasBody |-> s.call.hasBody, body |-> s.call.body,
                                 resp |-> s.env.resp])]
  ELSE UNCHANGED <<remote, nextId, calls>>

\* a handler step leaves the client, the reconcilers and their handlers alone
Running == UNCHANGED <<kind, version, active, given, op, nops>>

Return(p, status, err) ==
  /\ pc' = [pc EXCEPT ![p] = "done"]
  /\ result' = [result EXCEPT ![p] = [status |-> status, err |-> err]]

Goto(p, label) ==
  /\ pc' = [pc EXCEPT ![p] = label]
  /\ UNCHANGED result

(***************************************************************************)
(* Application: the functions that call the appliance.  Each gives the set *)
(* of its possible runs: the call it sent, the appliance's answer and what *)
(* the function returned.                                                  *)
(***************************************************************************)
\* a scan that takes an empty result list for a match
scanApplicationName_EmptyFound(results, applicationName) ==
  IF results = <<>> THEN [id |-> "", ex |-> TRUE, err |-> ""]
  ELSE IF \E i \in 1..Len(results) : results[i].ApplicationName = applicationName
       THEN [id |-> results[CHOOSE i \in 1..Len(results) :
                              results[i].ApplicationName = applicationName].ID,
             ex |-> TRUE, err |-> ""]
       ELSE [id |-> "", ex |-> FALSE, err |-> ""]

\* the first element of results whose ApplicationName is the name asked for
RECURSIVE scanApplicationName(_, _)
scanApplicationName(results, applicationName) ==
  IF results = <<>> THEN [id |-> "", ex |-> FALSE, err |-> ""]
  ELSE IF Head(results).ApplicationName = applicationName
       THEN [id |-> Head(results).ID, ex |-> TRUE, err |-> ""]
       ELSE scanApplicationName(Tail(results), applicationName)

searchResourceApplication(applicationName) ==
  LET c == Call("GET", "/applications/?fields=application_name,id&limit=-1",
                "list", "", <<>>)
  IN { [sent |-> TRUE, call |-> c, env |-> a,
        out |-> IF a.resp.err THEN [id |-> "", ex |-> FALSE, err |-> "transport"]
                ELSE IF a.resp.code # StatusOK
                     THEN [id |-> "", ex |-> FALSE, err |-> "status"]
                ELSE IF a.resp.shape # "array"
                     THEN [id |-> "", ex |-> FALSE, err |-> "decode"]
                ELSE scanApplicationName(a.resp.list, applicationName)] :
       a \in newRequest(c) }

\* a status test that takes a 404 for done
writeOutcome_NotFoundOK(resp) ==
  IF resp.err THEN "transport"
  ELSE IF resp.code # StatusOK /\ resp.code # StatusNoContent
          /\ resp.code # StatusNotFound THEN "status"
  ELSE ""

\* the write functions share their status test
writeOutcome(resp) ==
  IF resp.err THEN "transport"
  ELSE IF resp.code # StatusOK /\ resp.code # StatusNoContent THEN "status"
  ELSE ""

addApplication(dd) ==
  LET j == prepareApplicationJSON(dd)
      c == CallWithBody("POST", "/applications/", "collection", "", <<>>, j.json)
  IN IF j.panicked
     THEN { [sent |-> FALSE, call |-> c, env |-> [remote |-> remote, nextId |-> nextId],
             out |-> [err |-> "", panicked |-> TRUE]] }
     ELSE { [sent |-> TRUE, call |-> c, env |-> a,
             out |-> [err |-> writeOutcome(a.resp), panicked |-> FALSE]] :
            a \in newRequest(c) }

updateApplication(dd) ==
  LET j == prepareApplicationJSON(dd)
      c == CallWithBody("PUT", "/applications/" \o dd.id \o "?force=true",
                        "item", dd.id, <<>>, j.json)
  IN IF j.panicked
     THEN { [sent |-> FALSE, call |-> c, env |-> [remote |-> remote, nextId |-> nextId],
             out |-> [err |-> "", panicked |-> TRUE]] }
     ELSE { [sent |-> TRUE, call |-> c, env |-> a,
             out |-> [err |-> writeOutcome(a.resp), panicked |-> FALSE]] :
            a \in newRequest(c) }

deleteApplication(dd) ==
  LET c == Call("DELETE", "/applications/" \o dd.id, "item", dd.id, <<>>)
  IN { [sent |-> TRUE, call |-> c, env |-> a,
        out |-> [err |-> writeOutcome(a.resp), panicked |-> FALSE]] :
       a \in newRequest(c) }

\* a status test without the 404 case
readOutcome_No404(resp, zero) ==
  IF resp.err THEN [cfg |-> zero, err |-> "transport"]
  ELSE IF resp.code # StatusOK THEN [cfg |-> zero, err |-> "status"]
  ELSE IF resp.shape # "object" THEN [cfg |-> zero, err |-> "decode"]
  ELSE [cfg |-> resp.item, err |-> ""]

\* the item read functions share their status test: 404 gives the zero value
readOutcome(resp, zero) ==
  IF resp.err THEN [cfg |-> zero, err |-> "transport"]
  ELSE IF resp.code = StatusNotFound THEN [cfg |-> zero, err |-> ""]
  ELSE IF resp.code # StatusOK THEN [cfg |-> zero, err |-> "status"]
  ELSE IF resp.shape # "object" THEN [cfg |-> zero, err |-> "decode"]
  ELSE [cfg |-> resp.item, err |-> ""]

readApplicationOptions(applicationID) ==
  LET c == Call("GET", "/applications/" \o applicationID, "item", applicationID, <<>>)
  IN { [sent |-> TRUE, call |-> c, env |-> a,
        out |-> readOutcome(a.resp, zeroJsonApplication)] :
       a \in newRequest(c) }

(***************************************************************************)
(* Application: the handlers.                                              *)
(***************************************************************************)
resourceApplicationCreate(p) ==
  /\ kind = "application" /\ op[p] = "Create"
  /\ Running
  /\ \/ /\ pc[p] = "entry"
        /\ resourceApplicationVersionCheck(version) # ""
        /\ Return(p, "error", "version")
        /\ UNCHANGED <<remote, nextId, calls, d, loc>>
     \/ /\ pc[p] = "entry"
        /\ resourceApplicationVersionCheck(version) = ""
        /\ \E s \in searchResourceApplication(d[p].application_name) :
             /\ Issue(p, s)
             /\ IF s.out.err # "" THEN Return(p, "error", s.out.err)
                ELSE IF s.out.ex THEN Return(p, "error", "already exists")
                ELSE Goto(p, "add")
        /\ UNCHANGED <<d, loc>>
     \/ /\ pc[p] = "add"
        /\ \E s \in addApplication(d[p]) :
             /\ Issue(p, s)
             /\ IF s.out.panicked THEN Return(p, "panic", "type assertion")
                ELSE IF s.out.err # "" THEN Return(p, "error", s.out.err)
                ELSE Goto(p, "search")
        /\ UNCHANGED <<d, loc>>
     \/ /\ pc[p] = "search"
        /\ \E s \in searchResourceApplication(d[p].application_name) :
             /\ Issue(p, s)
             /\ IF s.out.err # ""
                THEN Return(p, "error", s.out.err) /\ UNCHANGED <<d, loc>>
                ELSE IF ~s.out.ex
                THEN Return(p, "error", "can't find after POST") /\ UNCHANGED <<d, loc>>
                ELSE /\ d' = [d EXCEPT ![p].id = s.out.id]
                     /\ loc' = [loc EXCEPT ![p].id = s.out.id]
                     /\ Goto(p, "read")

\* also the tail of Create and Update, which return resourceApplicationRead
resourceApplicationRead(p) ==
  /\ kind = "application"
  /\ Running
  /\ ((op[p] = "Read" /\ pc[p] = "entry") \/ pc[p] = "read")
  /\ \/ /\ resourceApplicationVersionCheck(version) # ""
        /\ Return(p, "error", "version")
        /\ UNCHANGED <<remote, nextId, calls, d, loc>>
     \/ /\ resourceApplicationVersionCheck(version) = ""
        /\ \E s \in readApplicationOptions(d[p].id) :
             /\ Issue(p, s)
             /\ loc' = [loc EXCEPT ![p].cfg = s.out.cfg]
             /\ IF s.out.err # ""
                THEN Return(p, "error", s.out.err) /\ UNCHANGED d
                ELSE IF s.out.cfg.ID = ""
                THEN Return(p, "ok", "") /\ d' = [d EXCEPT ![p].id = ""]
                ELSE LET f == fillApplication(d[p], s.out.cfg)
                     IN /\ d' = [d EXCEPT ![p] = f.d]
                        /\ IF f.panicked THEN Return(p, "panic", "nil dereference")
                           ELSE Return(p, "ok", "")

resourceApplicationUpdate(p) ==
  /\ kind = "application" /\ op[p] = "Update" /\ pc[p] = "entry"
  /\ Running
  /\ \/ /\ resourceApplicationVersionCheck(version) # ""
        /\ Return(p, "error", "version")
        /\ UNCHANGED <<remote, nextId, calls, d, loc>>
     \/ /\ resourceApplicationVersionCheck(version) = ""
        /\ \E s \in updateApplication(d[p]) :
             /\ Issue(p, s)
             /\ IF s.out.panicked THEN Return(p, "panic", "type assertion")
                ELSE IF s.out.err # "" THEN Return(p, "error", s.out.err)
                ELSE Goto(p, "read")
        /\ UNCHANGED <<d, loc>>

resourceApplicationDelete(p) ==
  /\ kind = "application" /\ op[p] = "Delete" /\ pc[p] = "entry"
  /\ Running
  /\ \/ /\ resourceApplicationVersionCheck(version) # ""
        /\ Return(p, "error", "version")
        /\ UNCHANGED <<remote, nextId, calls, d, loc>>
     \/ /\ resourceApplicationVersionCheck(version) = ""
        /\ \E s \in deleteApplication(d[p]) :
             /\ Issue(p, s)
             /\ IF s.out.err # "" THEN Return(p, "error", s.out.err)
                ELSE Return(p, "ok", "")
        /\ UNCHANGED <<d, loc>>

resourceApplicationImport(p) ==
  /\ kind = "application" /\ op[p] = "Import"
  /\ Running
  /\ \/ /\ pc[p] = "entry"
        /\ resourceApplicationVersionCheck(version) # ""
        /\ Return(p, "error", "version")
        /\ UNCHANGED <<remote, nextId, calls, d, loc>>
     \/ /\ pc[p] = "entry"
        /\ resourceApplicationVersionCheck(version) = ""
        /\ \E s \in searchResourceApplication(d[p].id) :
             /\ Issue(p, s)
             /\ IF s.out.err # "" THEN Return(p, "error", s.out.err) /\ UNCHANGED loc
                ELSE IF ~s.out.ex
                THEN Return(p, "error", "don't find") /\ UNCHANGED loc
                ELSE Goto(p, "importread") /\ loc' = [loc EXCEPT ![p].id = s.out.id]
        /\ UNCHANGED d
     \/ /\ pc[p] = "importread"
        /\ \E s \in readApplicationOptions(loc[p].id) :
             /\ Issue(p, s)
             /\ loc' = [loc EXCEPT ![p].cfg = s.out.cfg]
             /\ IF s.out.err # ""
                THEN Return(p, "error", s.out.err) /\ UNCHANGED d
                ELSE LET f == fillApplication(d[p], s.out.cfg)
                     IN IF f.panicked
                        THEN Return(p, "panic", "nil dereference")
                             /\ d' = [d EXCEPT ![p] = f.d]
                        ELSE Return(p, "ok", "")
                             /\ d' = [d EXCEPT ![p] = [f.d EXCEPT !.id = loc[p].id]]

(***************************************************************************)
(* LDAP external authentication: the functions that call the appliance.    *)
(***************************************************************************)
RECURSIVE scanAuthenticationName(_, _)
scanAuthenticationName(results, authenticationName) ==
  IF results = <<>> THEN [id |-> "", ex |-> FALSE, err |-> ""]
  ELSE IF Head(results).AuthenticationName = authenticationName
       THEN [id |-> Head(results).ID, ex |-> TRUE, err |-> ""]
       ELSE scanAuthenticationName(Tail(results), authenticationName)

\* a search that takes a body it cannot decode for an empty list
searchResourceExternalAuthLdap_DecodeNotFound(authenticationName) ==
  LET c == Call("GET", "/externalauths/" \o authenticationName,
                "byname", authenticationName, <<>>)
  IN { [sent |-> TRUE, call |-> c, env |-> a,
        out |-> IF a.resp.err THEN [id |-> "", ex |-> FALSE, err |-> "transport"]
                ELSE IF a.resp.code # StatusOK
                     THEN [id |-> "", ex |-> FALSE, err |-> "status"]
                ELSE IF a.resp.shape # "array"
                     THEN [id |-> "", ex |-> FALSE, err |-> ""]
                ELSE scanAuthenticationName(a.resp.list, authenticationName)] :
       a \in newRequest(c) }

searchResourceExternalAuthLdap(authenticationName) ==
  LET c == Call("GET", "/externalauths/" \o authenticationName,
                "byname", authenticationName, <<>>)
  IN { [sent |-> TRUE, call |-> c, env |-> a,
        out |-> IF a.resp.err THEN [id |-> "", ex |-> FALSE, err |-> "transport"]
                ELSE IF a.resp.code # StatusOK
                     THEN [id |-> "", ex |-> FALSE, err |-> "status"]
                ELSE IF a.resp.shape # "array"
                     THEN [id |-> "", ex |-> FALSE, err |-> "decode"]
                ELSE scanAuthenticationName(a.resp.list, authenticationName)] :
       a \in newRequest(c) }

addExternalAuthLdap(dd) ==
  LET c == CallWithBody("POST", "/externalauths/", "collection", "", <<>>,
                        prepareExternalAuthLdapJSON(dd))
  IN { [sent |-> TRUE, call |-> c, env |-> a,
        out |-> [err |-> writeOutcome(a.resp), panicked |-> FALSE]] :
       a \in newRequest(c) }

updateExternalAuthLdap(dd) ==
  LET c == CallWithBody("PUT", "/externalauths/" \o dd.id, "item", dd.id, <<>>,
                        prepareExternalAuthLdapJSON(dd))
  IN { [sent |-> TRUE, call |-> c, env |-> a,
        out |-> [err |-> writeOutcome(a.resp), panicked |-> FALSE]] :
       a \in newRequest(c) }

\* a delete that does not look at the answer
deleteExternalAuthLdap_IgnoreAnswer(dd) ==
  LET c == Call("DELETE", "/externalauths/" \o dd.id, "item", dd.id, <<>>)
  IN { [sent |-> TRUE, call |-> c, env |-> a,
        out |-> [err |-> "", panicked |-> FALSE]] :
       a \in newRequest(c) }

deleteExternalAuthLdap(dd) ==
  LET c == Call("DELETE", "/externalauths/" \o dd.id, "item", dd.id, <<>>)
  IN { [sent |-> TRUE, call |-> c, env |-> a,
        out |-> [err |-> writeOutcome(a.resp), panicked |-> FALSE]] :
       a \in newRequest(c) }

readExternalAuthLdapOptions(authenticationID) ==
  LET c == Call("GET", "/externalauths/" \o authenticationID, "item",
                authenticationID, <<>>)
  IN { [sent |-> TRUE, call |-> c, env |-> a,
        out |-> readOutcome(a.resp, zeroJsonExternalAuthLdap)] :
       a \in newRequest(c) }

(***************************************************************************)
(* LDAP external authentication: the handlers.                             *)
(***************************************************************************)
resourceExternalAuthLdapCreate(p) ==
  /\ kind = "ldap" /\ op[p] = "Create"
  /\ Running
  /\ \/ /\ pc[p] = "entry"
        /\ resourveExternalAuthLdapVersionCheck(version) # ""
        /\ Return(p, "error", "version")
        /\ UNCHANGED <<remote, nextId, calls, d, loc>>
     \/ /\ pc[p] = "entry"
        /\ resourveExternalAuthLdapVersionCheck(version) = ""
        /\ \E s \in searchResourceExternalAuthLdap(d[p].authentication_name) :
             /\ Issue(p, s)
             /\ IF s.out.err # "" THEN Return(p, "error", s.out.err)
                ELSE IF s.out.ex THEN Return(p, "error", "already exists")
                ELSE IF missingLoginPassword(d[p])
                THEN Return(p, "error", "missing 'login' and/or 'password'")
                ELSE Goto(p, "add")
        /\ UNCHANGED <<d, loc>>
     \/ /\ pc[p] = "add"
        /\ \E s \in addExternalAuthLdap(d[p]) :
             /\ Issue(p, s)
             /\ IF s.out.err # "" THEN Return(p, "error", s.out.err)
                ELSE Goto(p, "search")
        /\ UNCHANGED <<d, loc>>
     \/ /\ pc[p] = "search"
        /\ \E s \in searchResourceExternalAuthLdap(d[p].authentication_name) :
             /\ Issue(p, s)
             /\ IF s.out.err # ""
                THEN Return(p, "error", s.out.err) /\ UNCHANGED <<d, loc>>
                ELSE IF ~s.out.ex
                THEN Return(p, "error", "can't find after POST") /\ UNCHANGED <<d, loc>>
                ELSE /\ d' = [d EXCEPT ![p].id = s.out.id]
                     /\ loc' = [loc EXCEPT ![p].id = s.out.id]
                     /\ Goto(p, "read")

\* also the tail of Create and Update, which return resourceExternalAuthLdapRead
resourceExternalAuthLdapRead(p) ==
  /\ kind = "ldap"
  /\ Running
  /\ ((op[p] = "Read" /\ pc[p] = "entry") \/ pc[p] = "read")
  /\ \/ /\ resourveExternalAuthLdapVersionCheck(version) # ""
        /\ Return(p, "error", "version")
        /\ UNCHANGED <<remote, nextId, calls, d, loc>>
     \/ /\ resourveExternalAuthLdapVersionCheck(version) = ""
        /\ \E s \in readExternalAuthLdapOptions(d[p].id) :
             /\ Issue(p, s)
             /\ loc' = [loc EXCEPT ![p].cfg = s.out.cfg]
             /\ IF s.out.err # ""
                THEN Return(p, "error", s.out.err) /\ UNCHANGED d
                ELSE IF s.out.cfg.ID = ""
                THEN Return(p, "ok", "") /\ d' = [d EXCEPT ![p].id = ""]
                ELSE /\ Return(p, "ok", "")
                     /\ d' = [d EXCEPT ![p] = fillExternalAuthLdap(d[p], s.out.cfg)]

resourceExternalAuthLdapUpdate(p) ==
  /\ kind = "ldap" /\ op[p] = "Update" /\ pc[p] = "entry"
  /\ Running
  /\ \/ /\ resourveExternalAuthLdapVersionCheck(version) # ""
        /\ Return(p, "error", "version")
        /\ UNCHANGED <<remote, nextId, calls, d, loc>>
     \/ /\ resourveExternalAuthLdapVersionCheck(version) = ""
        /\ missingLoginPassword(d[p])
        /\ Return(p, "error", "missing 'login' and/or 'password'")
        /\ UNCHANGED <<remote, nextId, calls, d, loc>>
     \/ /\ resourveExternalAuthLdapVersionCheck(version) = ""
        /\ ~missingLoginPassword(d[p])
        /\ \E s \in updateExternalAuthLdap(d[p]) :
             /\ Issue(p, s)
             /\ IF s.out.err # "" THEN Return(p, "error", s.out.err)
                ELSE Goto(p, "read")
        /\ UNCHANGED <<d, loc>>

resourceExternalAuthLdapDelete(p) ==
  /\ kind = "ldap" /\ op[p] = "Delete" /\ pc[p] = "entry"
  /\ Running
  /\ \/ /\ resourveExternalAuthLdapVersionCheck(version) # ""
        /\ Return(p, "error", "version")
        /\ UNCHANGED <<remote, nextId, calls, d, loc>>
     \/ /\ resourveExternalAuthLdapVersionCheck(version) = ""
        /\ \E s \in deleteExternalAuthLdap(d[p]) :
             /\ Issue(p, s)
             /\ IF s.out.err # "" THEN Return(p, "error", s.out.err)
                ELSE Return(p, "ok", "")
        /\ UNCHANGED <<d, loc>>

resourceExternalAuthLdapImport(p) ==
  /\ kind = "ldap" /\ op[p] = "Import"
  /\ Running
  /\ \/ /\ pc[p] = "entry"
        /\ resourveExternalAuthLdapVersionCheck(version) # ""
        /\ Return(p, "error", "version")
        /\ UNCHANGED <<remote, nextId, calls, d, loc>>
     \/ /\ pc[p] = "entry"
        /\ resourveExternalAuthLdapVersionCheck(version) = ""
        /\ \E s \in searchResourceExternalAuthLdap(d[p].id) :
             /\ Issue(p, s)
             /\ IF s.out.err # "" THEN Return(p, "error", s.out.err) /\ UNCHANGED loc
                ELSE IF ~s.out.ex
                THEN Return(p, "error", "don't find") /\ UNCHANGED loc
                ELSE Goto(p, "importread") /\ loc' = [loc EXCEPT ![p].id = s.out.id]
        /\ UNCHANGED d
     \/ /\ pc[p] = "importread"
        /\ \E s \in readExternalAuthLdapOptions(loc[p].id) :
             /\ Issue(p, s)
             /\ loc' = [loc EXCEPT ![p].cfg = s.out.cfg]
             /\ IF s.out.err # ""
                THEN Return(p, "error", s.out.err) /\ UNCHANGED d
                ELSE /\ Return(p, "ok", "")
                     /\ d' = [d EXCEPT ![p] =
                                [fillExternalAuthLdap(d[p], s.out.cfg) EXCEPT
                                   !.id = loc[p].id]]

(***************************************************************************)
(* Credential: the functions that call the appliance.                      *)
(***************************************************************************)
\* The three reads of the parents are defined in other files of the
\* provider; they are item reads like the ones here: the zero value, whose
\* ID is empty, when the appliance answers 404.
readParent(path, parentID) ==
  LET c == Call("GET", path, "parent", parentID, <<>>)
  IN { [sent |-> TRUE, call |-> c, env |-> a,
        out |-> readOutcome(a.resp, zeroJson(kind))] :
       a \in newRequest(c) }

readDeviceOptions(deviceID) ==
  readParent("/devices/" \o deviceID, deviceID)

readDeviceLocalDomainOptions(deviceID, domainID) ==
  readParent("/devices/" \o deviceID \o "/localdomains/" \o domainID, domainID)

readDeviceLocalDomainAccountOptions(deviceID, domainID, accountID) ==
  readParent("/devices/" \o deviceID \o "/localdomains/" \o domainID
               \o "/accounts/" \o accountID, accountID)

\* a scan that never matches
scanType_NoMatch(results, typeCred) == [id |-> "", ex |-> FALSE, err |-> ""]

RECURSIVE scanType(_, _)
scanType(results, typeCred) ==
  IF results = <<>> THEN [id |-> "", ex |-> FALSE, err |-> ""]
  ELSE IF Head(results).Type = typeCred
       THEN [id |-> Head(results).ID, ex |-> TRUE, err |-> ""]
       ELSE scanType(Tail(results), typeCred)

searchResourceDeviceLocalDomainAccountCredential(deviceID, domainID, accountID, typeCred) ==
  LET c == Call("GET", credentialsPath(deviceID, domainID, accountID),
                "list", "", <<deviceID, domainID, accountID>>)
  IN { [sent |-> TRUE, call |-> c, env |-> a,
        out |-> IF a.resp.err THEN [id |-> "", ex |-> FALSE, err |-> "transport"]
                ELSE IF a.resp.code # StatusOK
                     THEN [id |-> "", ex |-> FALSE, err |-> "status"]
                ELSE IF a.resp.shape # "array"
                     THEN [id |-> "", ex |-> FALSE, err |-> "decode"]
                ELSE scanType(a.resp.list, typeCred)] :
       a \in newRequest(c) }

addDeviceLocalDomainAccountCredential(dd) ==
  LET c == CallWithBody("POST",
                        credentialsPath(dd.device_id, dd.domain_id, dd.account_id),
                        "collection", "", <<dd.device_id, dd.domain_id, dd.account_id>>,
                        prepareDeviceLocalDomainAccountCredentialJSON(dd, TRUE))
  IN { [sent |-> TRUE, call |-> c, env |-> a,
        out |-> [err |-> writeOutcome(a.resp), panicked |-> FALSE]] :
       a \in newRequest(c) }

updateDeviceLocalDomainAccountCredential(dd) ==
  LET c == CallWithBody("PUT",
                        credentialsPath(dd.device_id, dd.domain_id, dd.account_id) \o dd.id,
                        "item", dd.id, <<dd.device_id, dd.domain_id, dd.account_id>>,
                        prepareDeviceLocalDomainAccountCredentialJSON(dd, FALSE))
  IN { [sent |-> TRUE, call |-> c, env |-> a,
        out |-> [err |-> writeOutcome(a.resp), panicked |-> FALSE]] :
       a \in newRequest(c) }

deleteDeviceLocalDomainAccountCredential(dd) ==
  LET c == Call("DELETE",
                credentialsPath(dd.device_id, dd.domain_id, dd.account_id) \o dd.id,
                "item", dd.id, <<dd.device_id, dd.domain_id, dd.account_id>>)
  IN { [sent |-> TRUE, call |-> c, env |-> a,
        out |-> [err |-> writeOutcome(a.resp), panicked |-> FALSE]] :
       a \in newRequest(c) }

readDeviceLocalDomainAccountCredentialOptions(deviceID, localDomainID, accountID, credentialID) ==
  LET c == Call("GET", credentialsPath(deviceID, localDomainID, accountID) \o credentialID,
                "item", credentialID, <<deviceID, localDomainID, accountID>>)
  IN { [sent |-> TRUE, call |-> c, env |-> a,
        out |-> readOutcome(a.resp, zeroJsonDeviceLocalDomainAccountCredential)] :
       a \in newRequest(c) }

(***************************************************************************)
(* Credential: the handlers.                                               *)
(***************************************************************************)
\* one of the three parent checks of Create
parentCheck(p, runs, missing, next) ==
  /\ \E s \in runs :
       /\ Issue(p, s)
       /\ IF s.out.err # "" THEN Return(p, "error", s.out.err)
          ELSE IF s.out.cfg.ID = "" THEN Return(p, "error", missing)
          ELSE Goto(p, next)
  /\ UNCHANGED <<d, loc>>

resourceDeviceLocalDomainAccountCredentialCreate(p) ==
  /\ kind = "credential" /\ op[p] = "Create"
  /\ Running
  /\ \/ /\ pc[p] = "entry"
        /\ resourveDeviceLocalDomainAccountCredentialVersionCheck(version) # ""
        /\ Return(p, "error", "version")
        /\ UNCHANGED <<remote, nextId, calls, d, loc>>
     \/ /\ pc[p] = "entry"
        /\ resourveDeviceLocalDomainAccountCredentialVersionCheck(version) = ""
        /\ parentCheck(p, readDeviceOptions(d[p].device_id),
                       "device doesn't exists", "domain")
     \/ /\ pc[p] = "domain"
        /\ parentCheck(p, readDeviceLocalDomainOptions(d[p].device_id, d[p].domain_id),
                       "domain_id doesn't exists", "account")
     \/ /\ pc[p] = "account"
        /\ parentCheck(p, readDeviceLocalDomainAccountOptions(
                            d[p].device_id, d[p].domain_id, d[p].account_id),
                       "account_id doesn't exists", "presearch")
     \/ /\ pc[p] = "presearch"
        /\ \E s \in searchResourceDeviceLocalDomainAccountCredential(
                      d[p].device_id, d[p].domain_id, d[p].account_id, d[p].type) :
             /\ Issue(p, s)
             /\ IF s.out.err # "" THEN Return(p, "error", s.out.err)
                ELSE IF s.out.ex THEN Return(p, "error", "already exists")
                ELSE Goto(p, "add")
        /\ UNCHANGED <<d, loc>>
     \/ /\ pc[p] = "add"
        /\ \E s \in addDeviceLocalDomainAccountCredential(d[p]) :
             /\ Issue(p, s)
             /\ IF s.out.err # "" THEN Return(p, "error", s.out.err)
                ELSE Goto(p, "search")
        /\ UNCHANGED <<d, loc>>
     \/ /\ pc[p] = "search"
        /\ \E s \in searchResourceDeviceLocalDomainAccountCredential(
                      d[p].device_id, d[p].domain_id, d[p].account_id, d[p].type) :
             /\ Issue(p, s)
             /\ IF s.out.err # ""
                THEN Return(p, "error", s.out.err) /\ UNCHANGED <<d, loc>>
                ELSE IF ~s.out.ex
                THEN Return(p, "error", "can't find after POST") /\ UNCHANGED <<d, loc>>
                ELSE /\ d' = [d EXCEPT ![p].id = s.out.id]
                     /\ loc' = [loc EXCEPT ![p].id = s.out.id]
                     /\ Goto(p, "read")

\* also the tail of Create and Update
resourceDeviceLocalDomainAccountCredentialRead(p) ==
  /\ kind = "credential"
  /\ Running
  /\ ((op[p] = "Read" /\ pc[p] = "entry") \/ pc[p] = "read")
  /\ \/ /\ resourveDeviceLocalDomainAccountCredentialVersionCheck(version) # ""
        /\ Return(p, "error", "version")
        /\ UNCHANGED <<remote, nextId, calls, d, loc>>
     \/ /\ resourveDeviceLocalDomainAccountCredentialVersionCheck(version) = ""
        /\ \E s \in readDeviceLocalDomainAccountCredentialOptions(
                      d[p].device_id, d[p].domain_id, d[p].account_id, d[p].id) :
             /\ Issue(p, s)
             /\ loc' = [loc EXCEPT ![p].cfg = s.out.cfg]
             /\ IF s.out.err # ""
                THEN Return(p, "error", s.out.err) /\ UNCHANGED d
                ELSE IF s.out.cfg.ID = ""
                THEN Return(p, "ok", "") /\ d' = [d EXCEPT ![p].id = ""]
                ELSE /\ Return(p, "ok", "")
                     /\ d' = [d EXCEPT ![p] =
                                fillDeviceLocalDomainAccountCredential(d[p], s.out.cfg)]

resourceDeviceLocalDomainAccountCredentialUpdate(p) ==
  /\ kind = "credential" /\ op[p] = "Update" /\ pc[p] = "entry"
  /\ Running
  /\ \/ /\ resourveDeviceLocalDomainAccountCredentialVersionCheck(version) # ""
        /\ Return(p, "error", "version")
        /\ UNCHANGED <<remote, nextId, calls, d, loc>>
     \/ /\ resourveDeviceLocalDomainAccountCredentialVersionCheck(version) = ""
        /\ \E s \in updateDeviceLocalDomainAccountCredential(d[p]) :
             /\ Issue(p, s)
             /\ IF s.out.err # "" THEN Return(p, "error", s.out.err)
                ELSE Goto(p, "read")
        /\ UNCHANGED <<d, loc>>

resourceDeviceLocalDomainAccountCredentialDelete(p) ==
  /\ kind = "credential" /\ op[p] = "Delete" /\ pc[p] = "entry"
  /\ Running
  /\ \/ /\ resourveDeviceLocalDomainAccountCredentialVersionCheck(version) # ""
        /\ Return(p, "error", "version")
        /\ UNCHANGED <<remote, nextId, calls, d, loc>>
     \/ /\ resourveDeviceLocalDomainAccountCredentialVersionCheck(version) = ""
        /\ \E s \in deleteDeviceLocalDomainAccountCredential(d[p]) :
             /\ Issue(p, s)
             /\ IF s.out.err # "" THEN Return(p, "error", s.out.err)
                ELSE Return(p, "ok", "")
        /\ UNCHANGED <<d, loc>>

resourceDeviceLocalDomainAccountCredentialImport(p) ==
  /\ kind = "credential" /\ op[p] = "Import"
  /\ Running
  /\ \/ /\ pc[p] = "entry"
        /\ resourveDeviceLocalDomainAccountCredentialVersionCheck(version) # ""
        /\ Return(p, "error", "version")
        /\ UNCHANGED <<remote, nextId, calls, d, loc>>
     \/ /\ pc[p] = "entry"
        /\ resourveDeviceLocalDomainAccountCredentialVersionCheck(version) = ""
        /\ Len(Split(loc[p].key)) # 4
        /\ Return(p, "error", "id msut be <device_id>/<domain_id>/<account_id>/<type>")
        /\ loc' = [loc EXCEPT ![p].idSplit = Split(loc[p].key)]
        /\ UNCHANGED <<remote, nextId, calls, d>>
     \/ /\ pc[p] = "entry"
        /\ resourveDeviceLocalDomainAccountCredentialVersionCheck(version) = ""
        /\ LET idSplit == Split(loc[p].key)
           IN /\ Len(idSplit) = 4
              /\ \E s \in searchResourceDeviceLocalDomainAccountCredential(
                            idSplit[1], idSplit[2], idSplit[3], idSplit[4]) :
                   /\ Issue(p, s)
                   /\ IF s.out.err # ""
                      THEN /\ Return(p, "error", s.out.err)
                           /\ loc' = [loc EXCEPT ![p].idSplit = idSplit]
                      ELSE IF ~s.out.ex
                      THEN /\ Return(p, "error", "don't find")
                           /\ loc' = [loc EXCEPT ![p].idSplit = idSplit]
                      ELSE /\ Goto(p, "importread")
                           /\ loc' = [loc EXCEPT ![p].idSplit = idSplit,
                                                 ![p].id = s.out.id]
        /\ UNCHANGED d
     \/ /\ pc[p] = "importread"
        /\ LET idSplit == loc[p].idSplit
           IN \E s \in readDeviceLocalDomainAccountCredentialOptions(
                         idSplit[1], idSplit[2], idSplit[3], loc[p].id) :
                /\ Issue(p, s)
                /\ loc' = [loc EXCEPT ![p].cfg = s.out.cfg]
                /\ IF s.out.err # ""
                   THEN Return(p, "error", s.out.err) /\ UNCHANGED d
                   ELSE /\ Return(p, "ok", "")
                        /\ d' = [d EXCEPT ![p] =
                                   [fillDeviceLocalDomainAccountCredential(d[p], s.out.cfg)
                                      EXCEPT !.id = loc[p].id,
                                             !.device_id = idSplit[1],
                                             !.domain_id = idSplit[2],
                                             !.account_id = idSplit[3]]]

(***************************************************************************)
(* Local password policy data source.                                      *)
(***************************************************************************)
readLocalpasswordpolicyOptions(passwordPolicyName) ==
  LET c == Call("GET", "/localpasswordpolicies/?q=password_policy_name="
                         \o passwordPolicyName,
                "query", passwordPolicyName, <<>>)
      z == zeroJsonLocalpasswordpolicy
  IN { [sent |-> TRUE, call |-> c, env |-> a,
        out |-> IF a.resp.err THEN [cfg |-> z, err |-> "transport"]
                ELSE IF a.resp.code # StatusOK THEN [cfg |-> z, err |-> "status"]
                ELSE IF a.resp.shape # "array" THEN [cfg |-> z, err |-> "decode"]
                ELSE IF Len(a.resp.list) = 0 THEN [cfg |-> z, err |-> "not found"]
                ELSE [cfg |-> a.resp.list[1], err |-> ""]] :
       a \in newRequest(c) }

dataSourceLocalpasswordpolicyRead(p) ==
  /\ kind = "policy" /\ op[p] = "Read" /\ pc[p] = "entry"
  /\ Running
  /\ \/ /\ dataSourceLocalpasswordpolicyVersionCheck(version) # ""
        /\ Return(p, "error", "version")
        /\ UNCHANGED <<remote, nextId, calls, d, loc>>
     \/ /\ dataSourceLocalpasswordpolicyVersionCheck(version) = ""
        /\ \E s \in readLocalpasswordpolicyOptions(d[p].password_policy_name) :
             /\ Issue(p, s)
             /\ loc' = [loc EXCEPT ![p].cfg = s.out.cfg]
             /\ IF s.out.err # ""
                THEN Return(p, "error", s.out.err) /\ UNCHANGED d
                ELSE /\ Return(p, "ok", "")
                     /\ d' = [d EXCEPT ![p] =
                                [fillLocalpasswordpolicy(d[p], s.out.cfg) EXCEPT
                                   !.id = s.out.cfg.ID]]

(***************************************************************************)
(* The plugin SDK: it invokes the handlers the schema.Resource declares,   *)
(* one at a time per reconciler, on a ResourceData it prepared.            *)
(***************************************************************************)
\* the keys `terraform import` is given, as tokens
ImportKeys(k) ==
  CASE k = "application" -> {<<"app1">>, <<"app2">>}
    [] k = "ldap" -> {<<"ldap1">>, <<"ldap2">>}
    [] k = "credential" ->
         { <<"dev1", "/", "dom2", "/", "acc3", "/", "ssh_key">>,
           <<"dev1", "/", "dom2", "/", "acc3", "/", "password">>,
           <<"dev1", "/", "dom2", "/", "ssh_key">>,
           <<"dev1", "/", "dom2", "/", "acc3", "/", "ssh_key", "/", "x">>,
           <<"dev1", "/", "/", "acc3", "/", "ssh_key">>,
           <<"dev1", "/", "dom2", "/", "acc3", "/">> }

\* the ResourceData of an Update: the new configuration, with the id and the
\* computed attributes of the state; ForceNew attributes never differ
Planned(k, cur, cfg) ==
  CASE k = "application" ->
         [cfg EXCEPT !.id = cur.id, !.local_domains = cur.local_domains]
    [] k = "ldap" -> [cfg EXCEPT !.id = cur.id]
    [] k = "credential" -> [cfg EXCEPT !.id = cur.id, !.public_key = cur.public_key]

\* schemas without ForceNew: every change is planned as an Update
Plannable_NoForceNew(k, cur, cfg) == TRUE

\* the attributes the schemas mark ForceNew
Plannable(k, cur, cfg) ==
  CASE k = "application" -> TRUE
    [] k = "ldap" -> cfg.authentication_name = cur.authentication_name
    [] k = "credential" ->
         /\ cfg.device_id = cur.device_id
         /\ cfg.domain_id = cur.domain_id
         /\ cfg.account_id = cur.account_id
         /\ cfg.type = cur.type

Invoke(p, o, dd, key) ==
  /\ p \in active
  /\ pc[p] \in {"idle", "done"}
  /\ nops[p] < MaxOps
  /\ op' = [op EXCEPT ![p] = o]
  /\ pc' = [pc EXCEPT ![p] = "entry"]
  /\ d' = [d EXCEPT ![p] = dd]
  /\ given' = [given EXCEPT ![p] = dd]
  /\ result' = [result EXCEPT ![p] = noResult]
  /\ calls' = [calls EXCEPT ![p] = <<>>]
  /\ loc' = [loc EXCEPT ![p] = [noLocals(kind) EXCEPT !.key = key]]
  /\ nops' = [nops EXCEPT ![p] = @ + 1]
  /\ UNCHANGED <<kind, version, remote, nextId, active>>

InvokeCreate(p) ==
  /\ kind # "policy"
  /\ \E cfg \in Configs(kind) : Invoke(p, "Create", cfg, <<>>)

InvokeRead(p) ==
  /\ kind # "policy"
  /\ d[p].id # ""
  /\ Invoke(p, "Read", d[p], <<>>)

InvokeDataSourceRead(p) ==
  /\ kind = "policy"
  /\ \E cfg \in Configs(kind) : Invoke(p, "Read", cfg, <<>>)

InvokeUpdate(p) ==
  /\ kind # "policy"
  /\ d[p].id # ""
  /\ \E cfg \in Configs(kind) :
       /\ Plannable(kind, d[p], cfg)
       /\ Invoke(p, "Update", Planned(kind, d[p], cfg), <<>>)

InvokeDelete(p) ==
  /\ kind # "policy"
  /\ d[p].id # ""
  /\ Invoke(p, "Delete", d[p], <<>>)

InvokeImport(p) ==
  /\ kind # "policy"
  /\ \E key \in ImportKeys(kind) :
       Invoke(p, "Import", [blank(kind) EXCEPT !.id = Join(key)], key)

(***************************************************************************)
(* The environment: somebody else removes a record while a handler runs.   *)
(***************************************************************************)
ExternalDelete ==
  /\ \E p \in active : pc[p] \notin {"idle", "entry", "done"}
  /\ \E i \in 1..Len(remote) : remote' = Without(i)
  /\ UNCHANGED <<kind, version, nextId, active, d, given, op, pc, result, calls, loc, nops>>

(***************************************************************************)
(* Initial states.                                                         *)
(***************************************************************************)
\* a record the appliance already holds, under id1
InitRecord(k) ==
  CASE k = "application" ->
         [rec |-> [zeroJsonApplication EXCEPT
                     !.ID = "id1", !.ApplicationName = "app1",
                     !.ConnectionPolicy = "RDP", !.Target = "tgt",
                     !.Paths = MakeSlice(<<[Target |-> "acc@dom",
                                            Program |-> "calc.exe",
                                            WorkingDir |-> ""]>>),
                     !.GlobalDomains = MakeSlice(<<>>),
                     !.LocalDomains = [nil |-> FALSE, elems |-> <<LocalDomainA>>]],
          loc |-> <<>>]
    [] k = "ldap" ->
         [rec |-> [prepareExternalAuthLdapJSON(
                     CHOOSE c \in ExternalAuthLdapConfigs :
                       c.authentication_name = "ldap1" /\ c.login = "binder")
                   EXCEPT !.ID = "id1"],
          loc |-> <<>>]
    [] k = "credential" ->
         [rec |-> [zeroJsonDeviceLocalDomainAccountCredential EXCEPT
                     !.ID = "id1", !.Type = "ssh_key", !.PrivateKey = "KEY",
                     !.PublicKey = "ssh-rsa AAAA"],
          loc |-> <<"dev1", "dom2", "acc3">>]
    [] k = "policy" ->
         [rec |-> [zeroJsonLocalpasswordpolicy EXCEPT
                     !.ID = "id1", !.PasswordPolicyName = "default",
                     !.AllowSameUserAndPassword = TRUE,
                     !.PasswordExpiration = 90, !.PasswordWarningDays = 20,
                     !.PasswordMinLength = 12, !.PasswordMinLowerChars = 1,
                     !.PasswordMinUpperChars = 2, !.PasswordMinDigitChars = 3,
                     !.PasswordMinSpecialChars = 4, !.LastPasswordsToReject = 5,
                     !.MaxAuthFailures = 6, !.SSHRsaMinLength = 4096,
                     !.ForbiddenPasswords = MakeSlice(<<"password">>),
                     !.SSHKeyAlgosAllowed = MakeSlice(<<"rsa", "ed25519">>)],
          loc |-> <<>>]

\* the state an earlier apply left for that record
PriorState(k) ==
  CASE k = "application" ->
         [blankApplication EXCEPT
            !.id = "id1", !.application_name = "app1",
            !.connection_policy = "RDP", !.paths = {PathA}, !.target = "tgt",
            !.local_domains = fillLocalDomains(<<LocalDomainA>>)]
    [] k = "ldap" ->
         [(CHOOSE c \in ExternalAuthLdapConfigs :
             c.authentication_name = "ldap1" /\ c.login = "binder")
          EXCEPT !.id = "id1"]
    [] k = "credential" ->
         [(CHOOSE c \in DeviceLocalDomainAccountCredentialConfigs :
             c.private_key = "KEY")
          EXCEPT !.id = "id1", !.public_key = "ssh-rsa AAAA"]
    [] k = "policy" -> blankLocalpasswordpolicy

\* the reconcilers of who, each with spent operations of its run behind it
InitAfter(who, spent) ==
  /\ kind \in Kinds
  /\ version \in Versions
  /\ remote \in {<<>>, <<InitRecord(kind)>>}
  /\ nextId = 2
  /\ active = who
  /\ \E d0 \in {blank(kind), PriorState(kind)} :
       d = [p \in Procs |-> IF p \in who THEN d0 ELSE blank(kind)]
  /\ given = d
  /\ op = [p \in Procs |-> "none"]
  /\ pc = [p \in Procs |-> "idle"]
  /\ result = [p \in Procs |-> noResult]
  /\ calls = [p \in Procs |-> <<>>]
  /\ loc = [p \in Procs |-> noLocals(kind)]
  /\ nops = [p \in Procs |-> IF p \in who THEN spent ELSE 0]

InitWith(who) == InitAfter(who, 0)

Init == InitWith({1})

Step(p) ==
  \/ InvokeCreate(p)
  \/ InvokeRead(p)
  \/ InvokeDataSourceRead(p)
  \/ InvokeUpdate(p)
  \/ InvokeDelete(p)
  \/ InvokeImport(p)
  \/ resourceApplicationCreate(p)
  \/ resourceApplicationRead(p)
  \/ resourceApplicationUpdate(p)
  \/ resourceApplicationDelete(p)
  \/ resourceApplicationImport(p)
  \/ resourceExternalAuthLdapCreate(p)
  \/ resourceExternalAuthLdapRead(p)
  \/ resourceExternalAuthLdapUpdate(p)
  \/ resourceExternalAuthLdapDelete(p)
  \/ resourceExternalAuthLdapImport(p)
  \/ resourceDeviceLocalDomainAccountCredentialCreate(p)
  \/ resourceDeviceLocalDomainAccountCredentialRead(p)
  \/ resourceDeviceLocalDomainAccountCredentialUpdate(p)
  \/ resourceDeviceLocalDomainAccountCredentialDelete(p)
  \/ resourceDeviceLocalDomainAccountCredentialImport(p)
  \/ dataSourceLocalpasswordpolicyRead(p)

Next ==
  \/ \E p \in Procs : Step(p)
  \/ ExternalDelete

Spec == Init /\ [][Next]_vars

(***************************************************************************)
(* Vocabulary of the properties.                                           *)
(***************************************************************************)
Resources == {"application", "ldap", "credential"}

Finished(p) == pc[p] = "done"

Failed(p) == Finished(p) /\ result[p].status = "error"

Succeeded(p) == Finished(p) /\ result[p].status = "ok"

\* the versions the properties expect each kind to accept
AcceptedVersions(k) ==
  IF k = "policy" THEN defaultVersionsValid ELSE {versionValidate3_3}

\* the positions of the handler's calls that use the given method
CallsOf(p, method) == {i \in 1..Len(calls[p]) : calls[p][i].method = method}

\* the answer was a decoded list
ListAnswer(c) == ~c.resp.err /\ c.resp.code = StatusOK /\ c.resp.shape = "array"

\* the identity key of a ResourceData is held by this record of a list
HoldsKey(k, dd, rec) ==
  CASE k = "application" -> rec.ApplicationName = dd.application_name
    [] k = "ldap" -> rec.AuthenticationName = dd.authentication_name
    [] k = "credential" -> rec.Type = dd.type

\* the list holds the identity key
ListsKey(k, dd, c) ==
  ListAnswer(c) /\ \E i \in 1..Len(c.resp.list) : HoldsKey(k, dd, c.resp.list[i])

\* the position of Create's search before the POST: the credential reads
\* its three parents first
PreSearchAt(k) == IF k = "credential" THEN 4 ELSE 1

\* the path of the list a search of the identity key queries
SearchPath(k, dd) ==
  CASE k = "application" -> "/applications/?fields=application_name,id&limit=-1"
    [] k = "ldap" -> "/externalauths/" \o dd.authentication_name
    [] k = "credential" ->
         "/devices/" \o dd.device_id \o "/localdomains/" \o dd.domain_id
           \o "/accounts/" \o dd.account_id \o "/credentials/"

(***************************************************************************)
(* C1.  Version gate: when the client's API version is not in the set the  *)
(* resource accepts (versionValidate3_3 for the three resources,           *)
(* defaultVersionsValid for the data source), every handler has made no    *)
(* transport call, has left the ResourceData, its id included, as it       *)
(* received it, and returns the version error.                             *)
(***************************************************************************)
C1_VersionGate ==
  \A p \in Procs :
    (op[p] # "none" /\ version \notin AcceptedVersions(kind)) =>
      /\ calls[p] = <<>>
      /\ d[p] = given[p]
      /\ pc[p] \in {"entry", "done"}
      /\ Finished(p) => result[p] = [status |-> "error", err |-> "version"]

\* an Update of an application refused for a version the data source accepts
C1_Witness ==
  \E p \in Procs :
    /\ kind = "application" /\ op[p] = "Update" /\ Failed(p)
    /\ version \in defaultVersionsValid \ {versionValidate3_3}
    /\ given[p].id # ""

(***************************************************************************)
(* C2.  When the search Create runs before its POST lists the identity key *)
(* (application_name, authentication_name, or the type under device,       *)
(* domain and account), Create returns the "already exists" error, has     *)
(* sent no POST and leaves the id unbound.                                 *)
(***************************************************************************)
C2_DuplicateRejected ==
  \A p \in Procs :
    (/\ kind \in Resources /\ op[p] = "Create"
     /\ Len(calls[p]) >= PreSearchAt(kind)
     /\ ListsKey(kind, given[p], calls[p][PreSearchAt(kind)])) =>
      /\ result[p] = [status |-> "error", err |-> "already exists"]
      /\ Finished(p)
      /\ CallsOf(p, "POST") = {}
      /\ d[p].id = ""
      /\ calls[p][PreSearchAt(kind)].path = SearchPath(kind, given[p])

\* a credential whose type the account already has
C2_Witness ==
  \E p \in Procs :
    /\ kind = "credential" /\ op[p] = "Create" /\ Failed(p)
    /\ Len(calls[p]) = 4
    /\ ListsKey(kind, given[p], calls[p][4])

(***************************************************************************)
(* C3.  When Create's POST is answered 200 or 204 and the search after it  *)
(* returns a list without the identity key, Create returns the "can't find *)
(* after POST" error, never sets the id and does not run the final Read:   *)
(* the search is its last call.                                            *)
(***************************************************************************)
PostAccepted(c) ==
  /\ c.method = "POST" /\ ~c.resp.err
  /\ c.resp.code \in {StatusOK, StatusNoContent}

C3_LostAfterPost ==
  \A p \in Procs :
    \A i \in 1..Len(calls[p]) :
      (/\ kind \in Resources /\ op[p] = "Create"
       /\ PostAccepted(calls[p][i])
       /\ Len(calls[p]) > i
       /\ ListAnswer(calls[p][i + 1])
       /\ ~ListsKey(kind, given[p], calls[p][i + 1])) =>
        /\ result[p] = [status |-> "error", err |-> "can't find after POST"]
        /\ Finished(p)
        /\ d[p].id = ""
        /\ d[p] = given[p]
        /\ Len(calls[p]) = i + 1

\* the record of an LDAP authentication removed between POST and search
C3_Witness ==
  \E p \in Procs :
    /\ kind = "ldap" /\ op[p] = "Create" /\ Failed(p)
    /\ Len(calls[p]) = 3
    /\ PostAccepted(calls[p][2])
    /\ ListAnswer(calls[p][3])
    /\ calls[p][3].resp.list = <<>>

(***************************************************************************)
(* C4.  Every Create that returns without error leaves a non-empty id in   *)
(* the ResourceData, the id its search after the POST returned, whatever   *)
(* the appliance answers to the final Read.                                *)
(***************************************************************************)
C4_CreateBindsId ==
  \A p \in Procs :
    (kind \in Resources /\ op[p] = "Create" /\ Succeeded(p)) =>
      /\ d[p].id # ""
      /\ d[p].id = loc[p].id

(***************************************************************************)
(* C5.  A Read whose item GET is answered 404 returns no error, empties    *)
(* the id and leaves every other attribute as it was; a Read answered 200  *)
(* with a record keeps the id.                                             *)
(***************************************************************************)
\* the path of the item a ResourceData names
ItemPath(k, dd) ==
  CASE k = "application" -> "/applications/" \o dd.id
    [] k = "ldap" -> "/externalauths/" \o dd.id
    [] k = "credential" ->
         "/devices/" \o dd.device_id \o "/localdomains/" \o dd.domain_id
           \o "/accounts/" \o dd.account_id \o "/credentials/" \o dd.id

C5_ReadNotFound ==
  \A p \in Procs :
    (kind \in Resources /\ op[p] = "Read" /\ calls[p] # <<>>) =>
      LET c == calls[p][1]
      IN /\ Len(calls[p]) = 1
         /\ c.method = "GET" /\ c.path = ItemPath(kind, given[p])
         /\ (~c.resp.err /\ c.resp.code = StatusNotFound) =>
              /\ Succeeded(p)
              /\ d[p] = [given[p] EXCEPT !.id = ""]
         /\ (~c.resp.err /\ c.resp.code = StatusOK /\ c.resp.shape = "object") =>
              /\ Succeeded(p)
              /\ d[p].id = given[p].id

\* the Read of an application the appliance no longer holds
C5_Witness ==
  \E p \in Procs :
    /\ kind = "application" /\ op[p] = "Read" /\ Succeeded(p)
    /\ calls[p][1].resp.code = StatusNotFound
    /\ given[p].id = "id1" /\ d[p].id = ""
    /\ given[p].application_name = "app1" /\ d[p].application_name = "app1"

(***************************************************************************)
(* C6.  A credential Import whose key does not have exactly 4 segments     *)
(* between "/" fails, with the format error once the version gate is       *)
(* passed, without any transport call and with the ResourceData unchanged; *)
(* with exactly 4 segments its first transport call is the GET of the      *)
(* credentials list of segments 1 to 3.                                    *)
(***************************************************************************)
SlashesOf(key) == {i \in 1..Len(key) : key[i] = "/"}

SegmentCount(key) == Cardinality(SlashesOf(key)) + 1

\* the position of the n-th "/" of the key; 0 before the first segment and
\* past the end after the last
NthSlash(key, n) ==
  IF n = 0 THEN 0
  ELSE IF n > Cardinality(SlashesOf(key)) THEN Len(key) + 1
  ELSE CHOOSE i \in SlashesOf(key) :
         Cardinality({j \in SlashesOf(key) : j <= i}) = n

Segment(key, n) ==
  Join(SubSeq(key, NthSlash(key, n - 1) + 1, NthSlash(key, n) - 1))

FormatError == "id msut be <device_id>/<domain_id>/<account_id>/<type>"

C6_ImportKeyFormat ==
  \A p \in Procs :
    (kind = "credential" /\ op[p] = "Import" /\ pc[p] # "entry") =>
      LET key == loc[p].key
      IN /\ given[p].id = Join(key)
         /\ SegmentCount(key) # 4 =>
              /\ Failed(p)
              /\ calls[p] = <<>>
              /\ d[p] = given[p]
              /\ version \in AcceptedVersions(kind) => result[p].err = FormatError
         /\ (SegmentCount(key) = 4 /\ version \in AcceptedVersions(kind)) =>
              /\ calls[p] # <<>>
              /\ calls[p][1].method = "GET"
              /\ calls[p][1].path =
                   "/devices/" \o Segment(key, 1) \o "/localdomains/" \o Segment(key, 2)
                     \o "/accounts/" \o Segment(key, 3) \o "/credentials/"

\* the key dev1/dom2/ssh_key: 3 segments
C6_Witness ==
  \E p \in Procs :
    /\ kind = "credential" /\ op[p] = "Import" /\ Failed(p)
    /\ SegmentCount(loc[p].key) = 3
    /\ result[p].err = FormatError
    /\ given[p].id = "dev1/dom2/ssh_key"

(***************************************************************************)
(* C7.  An application Create that returns without error has issued        *)
(* exactly four calls, in this order: the list GET, answered without the   *)
(* name; the POST of the encoded ResourceData to the collection; the list  *)
(* GET again, answered with the name; the item GET of the id that second   *)
(* list gave.  The id it ends with is that id, whatever id it was given,   *)
(* and the ResourceData still encodes to the body that was POSTed.         *)
(***************************************************************************)
\* the id of the first record of a list that holds the identity key
FirstHolding(k, dd, list) ==
  list[CHOOSE i \in 1..Len(list) :
         /\ HoldsKey(k, dd, list[i])
         /\ \A j \in 1..(i - 1) : ~HoldsKey(k, dd, list[j])].ID

C7_CreateSequence ==
  \A p \in Procs :
    (kind = "application" /\ op[p] = "Create" /\ Succeeded(p)) =>
      LET cs == calls[p]
      IN /\ Len(cs) = 4
         /\ cs[1].method = "GET" /\ cs[1].path = SearchPath(kind, given[p])
         /\ ListAnswer(cs[1]) /\ ~ListsKey(kind, given[p], cs[1])
         /\ cs[2].method = "POST" /\ cs[2].path = "/applications/"
         /\ PostAccepted(cs[2])
         /\ cs[2].hasBody /\ cs[2].body = prepareApplicationJSON(given[p]).json
         /\ cs[3].method = "GET" /\ cs[3].path = SearchPath(kind, given[p])
         /\ ListsKey(kind, given[p], cs[3])
         /\ LET id == FirstHolding(kind, given[p], cs[3].resp.list)
            IN /\ cs[4].method = "GET" /\ cs[4].path = "/applications/" \o id
               /\ d[p].id = id
               /\ id # ""
         /\ prepareApplicationJSON(d[p]).json = cs[2].body

(***************************************************************************)
(* C8.  A credential Import that returns without error ends with the id of *)
(* the first record of the credentials list whose type is segment 4 of the *)
(* key, with device_id, domain_id and account_id equal to segments 1, 2    *)
(* and 3, with type and public_key those of the record its item GET        *)
(* returned, and with password, private_key and passphrase empty.          *)
(***************************************************************************)
C8_CredentialImport ==
  \A p \in Procs :
    (kind = "credential" /\ op[p] = "Import" /\ Succeeded(p)) =>
      LET key == loc[p].key
          cs == calls[p]
          wanted == [type |-> Segment(key, 4)]
      IN /\ SegmentCount(key) = 4
         /\ Len(cs) = 2
         /\ ListsKey(kind, wanted, cs[1])
         /\ d[p].id = FirstHolding(kind, wanted, cs[1].resp.list)
         /\ cs[2].path = credentialsPath(Segment(key, 1), Segment(key, 2),
                                         Segment(key, 3)) \o d[p].id
         /\ d[p].device_id = Segment(key, 1)
         /\ d[p].domain_id = Segment(key, 2)
         /\ d[p].account_id = Segment(key, 3)
         /\ (cs[2].resp.code = StatusOK) =>
              /\ d[p].type = cs[2].resp.item.Type
              /\ d[p].public_key = cs[2].resp.item.PublicKey
         /\ d[p].type = loc[p].cfg.Type
         /\ d[p].public_key = loc[p].cfg.PublicKey
         /\ d[p].password = "" /\ d[p].private_key = "" /\ d[p].passphrase = ""

\* the import of dev1/dom2/acc3/ssh_key, whose record has a public key
C8_Witness ==
  \E p \in Procs :
    /\ kind = "credential" /\ op[p] = "Import" /\ Succeeded(p)
    /\ given[p].id = "dev1/dom2/acc3/ssh_key"
    /\ calls[p][2].resp.code = StatusOK
    /\ d[p].id = "id1" /\ d[p].type = "ssh_key"
    /\ d[p].public_key = "ssh-rsa AAAA"
    /\ d[p].device_id = "dev1" /\ d[p].domain_id = "dom2"
    /\ d[p].account_id = "acc3"

(***************************************************************************)
(* C9.  Round trip: for every ResourceData x a Create or an Update of an   *)
(* application or of an LDAP external authentication is given, encoding x, *)
(* having the appliance store the record and return it, and decoding that  *)
(* record into x completes and gives back every declared field of x; only  *)
(* password and private_key, which the appliance keeps to itself, and the  *)
(* computed local_domains are left out of the comparison.                  *)
(***************************************************************************)
\* what an item GET returns for a body the appliance has just stored
StoredView(body) == ItemView(Stored(body, IdOf(nextId), zeroJson(kind)))

RoundTripApplication(x) ==
  LET e == prepareApplicationJSON(x)
      f == fillApplication(x, StoredView(e.json))
  IN /\ ~e.panicked
     /\ ~f.panicked
     /\ [f.d EXCEPT !.local_domains = x.local_domains] = x

RoundTripExternalAuthLdap(x) ==
  LET f == fillExternalAuthLdap(x, StoredView(prepareExternalAuthLdapJSON(x)))
  IN [f EXCEPT !.password = x.password, !.private_key = x.private_key] = x

C9_RoundTrip ==
  \A p \in Procs :
    (op[p] \in {"Create", "Update"}) =>
      /\ kind = "application" => RoundTripApplication(given[p])
      /\ kind = "ldap" => RoundTripExternalAuthLdap(given[p])

(***************************************************************************)
(* C10.  Encoding an application copies its global_domains: for every      *)
(* ResourceData a Create or an Update is given, prepareApplicationJSON     *)
(* completes, the record it returns carries global_domains as a sequence   *)
(* that JSON renders as an array (never null, never left out), and the     *)
(* elements of that sequence are exactly the declared global domains.      *)
(***************************************************************************)
C10_GlobalDomainsEncoded ==
  \A p \in Procs :
    (kind = "application" /\ op[p] \in {"Create", "Update"}) =>
      LET e == prepareApplicationJSON(given[p])
      IN /\ ~e.panicked
         /\ jsonForm(e.json.GlobalDomains) = "array"
         /\ Range(e.json.GlobalDomains.elems) = given[p].global_domains
         /\ Len(e.json.GlobalDomains.elems) = Cardinality(given[p].global_domains)
         /\ result[p].status # "panic"

(***************************************************************************)
(* C11.  Refresh never clobbers secrets: when a Read or an Import of an    *)
(* LDAP external authentication or of a credential returns without error   *)
(* and the record its item GET returned carries no password, private_key   *)
(* or passphrase, the ResourceData holds the password, private_key and     *)
(* passphrase it held when the handler was entered.                        *)
(***************************************************************************)
\* the last answer was a record without its secrets
AnsweredWithoutSecrets(p) ==
  /\ calls[p] # <<>>
  /\ LET c == calls[p][Len(calls[p])]
     IN /\ ~c.resp.err /\ c.resp.code = StatusOK /\ c.resp.shape = "object"
        /\ c.resp.item.Password = "" /\ c.resp.item.PrivateKey = ""
        /\ kind = "credential" => c.resp.item.Passphrase = ""

C11_SecretsKept ==
  \A p \in Procs :
    (/\ kind \in {"ldap", "credential"} /\ op[p] \in {"Read", "Import"}
     /\ Succeeded(p) /\ AnsweredWithoutSecrets(p)) =>
      /\ d[p].password = given[p].password
      /\ d[p].private_key = given[p].private_key
      /\ kind = "credential" => d[p].passphrase = given[p].passphrase

(***************************************************************************)
(* C12.  Decode copies every field of the record: when an Import of an     *)
(* application or of an LDAP external authentication returns without error *)
(* after its item GET returned a record, the ResourceData holds the id and *)
(* every field of that record other than password and private_key, the     *)
(* application_name or authentication_name the key named included.         *)
(***************************************************************************)
HoldsApplication(dd, r) ==
  /\ dd.id = r.ID
  /\ dd.application_name = r.ApplicationName
  /\ dd.connection_policy = r.ConnectionPolicy
  /\ dd.target = r.Target
  /\ dd.description = r.Description
  /\ dd.parameters = r.Parameters
  /\ dd.global_domains = Range(r.GlobalDomains.elems)
  /\ dd.paths = {[target |-> v.Target, program |-> v.Program,
                  working_dir |-> v.WorkingDir] : v \in Range(r.Paths.elems)}
  /\ Len(dd.local_domains) = Len(r.LocalDomains.elems)
  /\ \A i \in 1..Len(dd.local_domains) :
       /\ dd.local_domains[i].id = r.LocalDomains.elems[i].ID
       /\ dd.local_domains[i].domain_name = r.LocalDomains.elems[i].DomainName
       /\ dd.local_domains[i].admin_account = r.LocalDomains.elems[i].AdminAccount

HoldsExternalAuthLdap(dd, r) ==
  /\ dd.id = r.ID
  /\ dd.authentication_name = r.AuthenticationName
  /\ dd.cn_attribute = r.CNAttribute
  /\ dd.host = r.Host
  /\ dd.ldap_base = r.LDAPBase
  /\ dd.login = r.Login
  /\ dd.login_attribute = r.LoginAttribute
  /\ dd.port = r.Port
  /\ dd.timeout = r.Timeout
  /\ dd.ca_certificate = r.CACertificate
  /\ dd.certificate = r.Certificate
  /\ dd.description = r.Description
  /\ dd.is_active_directory = r.IsActiveDirectory
  /\ dd.is_anonymous_access = r.IsAnonymousAccess
  /\ dd.is_protected_user = r.IsProtectedUser
  /\ dd.is_ssl = r.IsSSL
  /\ dd.is_starttls = r.IsStartTLS
  /\ dd.use_primary_auth_domain = r.UsePrimaryAuthDomain

C12_ImportCopiesRecord ==
  \A p \in Procs :
    (/\ kind \in {"application", "ldap"} /\ op[p] = "Import" /\ Succeeded(p)
     /\ Len(calls[p]) = 2
     /\ calls[p][2].resp.code = StatusOK) =>
      LET r == calls[p][2].resp.item
      IN /\ r.ID # ""
         /\ kind = "application" => HoldsApplication(d[p], r)
         /\ kind = "ldap" => HoldsExternalAuthLdap(d[p], r)

(***************************************************************************)
(* C13.  Status handling.  A POST, PUT or DELETE answered 200 or 204 does  *)
(* not fail the operation at that call, and Delete then returns without    *)
(* error; answered with any other status it is the last call and the       *)
(* operation returns the status error.  An item GET answered 404 gives the *)
(* zero record without a status error; answered 200 with a record it gives *)
(* that record.  Any other status on a GET, and a 404 on a list GET, ends  *)
(* the operation with the status error.  A DELETE answered 404 is the only *)
(* call of its Delete, which returns an error.                             *)
(***************************************************************************)
Writes == {"POST", "PUT", "DELETE"}

\* the statuses a call accepts
Accepted(c) ==
  IF c.method \in Writes THEN {StatusOK, StatusNoContent}
  ELSE IF c.ep \in {"item", "parent"} THEN {StatusOK, StatusNotFound}
  ELSE {StatusOK}

StatusError == [status |-> "error", err |-> "status"]

C13_StatusHandling ==
  \A p \in Procs :
    \A i \in 1..Len(calls[p]) :
      LET c == calls[p][i]
          last == i = Len(calls[p])
      IN ~c.resp.err =>
           /\ c.resp.code \notin Accepted(c) =>
                /\ last /\ Finished(p) /\ result[p] = StatusError
           /\ c.resp.code \in Accepted(c) => result[p] # StatusError \/ ~last
           /\ (c.method \in Writes /\ c.resp.code \in Accepted(c) /\ last) =>
                /\ result[p].status # "error"
                /\ Finished(p) => op[p] = "Delete" /\ Succeeded(p)
           /\ (c.method = "GET" /\ c.ep = "item" /\ last /\ Finished(p)) =>
                /\ c.resp.code = StatusNotFound =>
                     /\ loc[p].cfg = zeroJson(kind)
                     /\ result[p].status # "error"
                /\ (c.resp.code = StatusOK /\ c.resp.shape = "object") =>
                     /\ loc[p].cfg = c.resp.item
                     /\ result[p].status # "error"
           /\ (c.method = "DELETE" /\ c.resp.code = StatusNotFound) =>
                /\ op[p] = "Delete" /\ i = 1 /\ last /\ Failed(p)

\* the Delete of a credential the appliance no longer holds
C13_Witness ==
  \E p \in Procs :
    /\ kind = "credential" /\ op[p] = "Delete" /\ Failed(p)
    /\ Len(calls[p]) = 1
    /\ calls[p][1].method = "DELETE"
    /\ calls[p][1].resp.code = StatusNotFound
    /\ result[p] = StatusError

(***************************************************************************)
(* C14.  LDAP external authentication: when is_anonymous_access is false   *)
(* and login or password is empty, Create and Update fail and send no POST *)
(* and no PUT, and the error is the "missing 'login' and/or 'password'"    *)
(* one as soon as the steps before the test have passed (the version gate, *)
(* and for Create the search that answers without the name).  When         *)
(* is_anonymous_access is true, or login and password are both set, that   *)
(* error is never returned and the POST or PUT is sent once those steps    *)
(* have passed.                                                            *)
(***************************************************************************)
MissingError == [status |-> "error", err |-> "missing 'login' and/or 'password'"]

\* the ResourceData lacks the login or the password it needs
LacksLoginPassword(dd) ==
  dd.is_anonymous_access = FALSE /\ (dd.login = "" \/ dd.password = "")

\* the steps before the test have passed
TestReached(p) ==
  /\ version \in AcceptedVersions(kind)
  /\ pc[p] # "entry"
  /\ op[p] = "Create" =>
       /\ ListAnswer(calls[p][1])
       /\ ~ListsKey(kind, given[p], calls[p][1])

C14_LoginPasswordRequired ==
  \A p \in Procs :
    (kind = "ldap" /\ op[p] \in {"Create", "Update"}) =>
      /\ LacksLoginPassword(given[p]) =>
           /\ CallsOf(p, "POST") = {} /\ CallsOf(p, "PUT") = {}
           /\ pc[p] \in {"entry", "done"}
           /\ Finished(p) => Failed(p)
           /\ TestReached(p) => result[p] = MissingError
           /\ d[p] = given[p]
      /\ ~LacksLoginPassword(given[p]) =>
           /\ result[p] # MissingError
           /\ TestReached(p) =>
                IF op[p] = "Create"
                THEN pc[p] = "add" \/ (Len(calls[p]) >= 2 /\ calls[p][2].method = "POST")
                ELSE calls[p] # <<>> /\ calls[p][1].method = "PUT"

\* an Update that declares a password without a login
C14_Witness ==
  \E p \in Procs :
    /\ kind = "ldap" /\ op[p] = "Update" /\ result[p] = MissingError
    /\ given[p].login = "" /\ given[p].password = "secret"
    /\ given[p].id = "id1" /\ calls[p] = <<>>

(***************************************************************************)
(* C15.  Each search returns the empty id, not found and no error when the *)
(* list the appliance answers with, empty or not, holds no record with the *)
(* identity key; it returns an error, and neither found nor an id, when    *)
(* the transport fails, the status is not 200 or the body is not a list.   *)
(* Checked on every run of the three searches in every reachable state,    *)
(* and on the Import that ends on its search.                              *)
(***************************************************************************)
\* the identity keys the searches are asked for
SearchKeys(k) ==
  CASE k = "application" -> {"app1", "app2"}
    [] k = "ldap" -> {"ldap1", "ldap2"}
    [] k = "credential" -> {"ssh_key", "password"}
    [] k = "policy" -> {}

\* the runs of the search of kind k for a key
SearchRuns(k, key) ==
  CASE k = "application" -> searchResourceApplication(key)
    [] k = "ldap" -> searchResourceExternalAuthLdap(key)
    [] k = "credential" ->
         searchResourceDeviceLocalDomainAccountCredential("dev1", "dom2", "acc3", key)

\* a ResourceData that names the key
Keyed(k, key) ==
  CASE k = "application" -> [application_name |-> key]
    [] k = "ldap" -> [authentication_name |-> key]
    [] k = "credential" -> [type |-> key]

SearchNotFound == [id |-> "", ex |-> FALSE, err |-> ""]

C15_SearchOutcome ==
  /\ \A key \in SearchKeys(kind) :
       \A s \in SearchRuns(kind, key) :
         LET r == s.env.resp
             decoded == ~r.err /\ r.code = StatusOK /\ r.shape = "array"
         IN /\ (decoded /\ \A i \in 1..Len(r.list) : ~HoldsKey(kind, Keyed(kind, key), r.list[i]))
                 => s.out = SearchNotFound
            /\ ~decoded => s.out.err # "" /\ ~s.out.ex /\ s.out.id = ""
            /\ s.call.method = "GET" /\ ~s.call.hasBody
  /\ \A p \in Procs :
       (kind \in Resources /\ op[p] = "Import" /\ Len(calls[p]) = 1 /\ Finished(p)
        /\ (kind = "credential" => SegmentCount(loc[p].key) = 4)) =>
         LET c == calls[p][1]
             wanted == IF kind = "credential" THEN Segment(loc[p].key, 4)
                       ELSE given[p].id
         IN /\ Failed(p)
            /\ c.resp.err => result[p].err = "transport"
            /\ (~c.resp.err /\ c.resp.code # StatusOK) => result[p].err = "status"
            /\ (~c.resp.err /\ c.resp.code = StatusOK /\ c.resp.shape # "array")
                 => result[p].err = "decode"
            /\ ListAnswer(c) =>
                 /\ ~ListsKey(kind, Keyed(kind, wanted), c)
                 /\ result[p].err = "don't find"

\* the Import of an LDAP authentication the appliance answers an empty list for
C15_Witness ==
  \E p \in Procs :
    /\ kind = "ldap" /\ op[p] = "Import" /\ Failed(p)
    /\ Len(calls[p]) = 1 /\ ListAnswer(calls[p][1])
    /\ calls[p][1].resp.list = <<>>
    /\ result[p].err = "don't find"

(***************************************************************************)
(* C16.  Whenever a lookup by identity key gives an id or a record (the    *)
(* three searches, and readLocalpasswordpolicyOptions of the data source), *)
(* the answer was a list and what is returned is the first record of that  *)
(* list whose identity field equals the key; an answer whose records all   *)
(* carry another identity value gives no match.  Checked on every run of   *)
(* the four functions in every reachable state, and on the data source     *)
(* Read that returned.                                                     *)
(***************************************************************************)
PolicyNames == {c.password_policy_name : c \in LocalpasswordpolicyConfigs}

\* the positions of a list that carry the policy name
NamedAt(list, name) == {i \in 1..Len(list) : list[i].PasswordPolicyName = name}

C16_FirstExactMatch ==
  /\ \A key \in SearchKeys(kind) :
       \A s \in SearchRuns(kind, key) :
         LET r == s.env.resp
         IN IF s.out.ex
            THEN /\ ~r.err /\ r.code = StatusOK /\ r.shape = "array"
                 /\ \E i \in 1..Len(r.list) : HoldsKey(kind, Keyed(kind, key), r.list[i])
                 /\ s.out.id = FirstHolding(kind, Keyed(kind, key), r.list)
            ELSE s.out.id = ""
  /\ kind = "policy" =>
       \A name \in PolicyNames :
         \A s \in readLocalpasswordpolicyOptions(name) :
           LET r == s.env.resp
           IN s.out.err = "" =>
                /\ ~r.err /\ r.code = StatusOK /\ r.shape = "array"
                /\ NamedAt(r.list, name) # {}
                /\ s.out.cfg = r.list[CHOOSE i \in NamedAt(r.list, name) :
                                        \A j \in NamedAt(r.list, name) : i <= j]
  /\ \A p \in Procs :
       (kind = "policy" /\ op[p] = "Read" /\ Succeeded(p)) =>
         /\ loc[p].cfg.PasswordPolicyName = given[p].password_policy_name
         /\ d[p].id = loc[p].cfg.ID

(***************************************************************************)
(* C17.  No silent continuation: in every operation of every kind, a step  *)
(* that fails is the last one and the operation returns an error.  The     *)
(* steps that fail: the version gate; a call the transport fails, answers  *)
(* with a status it does not accept or with a body that does not decode;   *)
(* the preconditions (the name already listed before Create's POST, not    *)
(* listed after it or at Import, a parent answered 404, the empty list of  *)
(* the data source, the missing login or password).  An operation that     *)
(* returns without error has seen none of them.                            *)
(***************************************************************************)
\* the body a GET decodes
ExpectedShape(c) == IF c.ep \in {"item", "parent"} THEN "object" ELSE "array"

CallFailed(c) ==
  \/ c.resp.err
  \/ c.resp.code \notin Accepted(c)
  \/ c.method = "GET" /\ c.resp.code = StatusOK /\ c.resp.shape # ExpectedShape(c)

\* the key an operation looks for
Wanted(p) ==
  IF op[p] = "Import"
  THEN Keyed(kind, IF kind = "credential" THEN Segment(loc[p].key, 4) ELSE given[p].id)
  ELSE given[p]

\* call i of p found a precondition broken
PreconditionFailed(p, i) ==
  LET c == calls[p][i]
      afterPost == \E j \in 1..(i - 1) : calls[p][j].method = "POST"
  IN \/ /\ kind \in Resources /\ c.method = "GET" /\ c.ep \in {"list", "byname"}
        /\ ListAnswer(c)
        /\ \/ op[p] = "Create" /\ ~afterPost /\ ListsKey(kind, Wanted(p), c)
           \/ op[p] = "Create" /\ afterPost /\ ~ListsKey(kind, Wanted(p), c)
           \/ op[p] = "Import" /\ ~ListsKey(kind, Wanted(p), c)
     \/ c.ep = "parent" /\ ~c.resp.err /\ c.resp.code = StatusNotFound
     \/ c.ep = "query" /\ ListAnswer(c) /\ c.resp.list = <<>>

C17_NoSilentContinuation ==
  \A p \in Procs :
    /\ (op[p] # "none" /\ version \notin AcceptedVersions(kind)) =>
         calls[p] = <<>> /\ (Finished(p) => Failed(p))
    /\ \A i \in 1..Len(calls[p]) :
         (CallFailed(calls[p][i]) \/ PreconditionFailed(p, i)) =>
           /\ i = Len(calls[p])
           /\ Failed(p)
    /\ Succeeded(p) =>
         /\ version \in AcceptedVersions(kind)
         /\ \A i \in 1..Len(calls[p]) :
              ~CallFailed(calls[p][i]) /\ ~PreconditionFailed(p, i)
         /\ (kind = "ldap" /\ op[p] \in {"Create", "Update"}) =>
              ~LacksLoginPassword(given[p])
         /\ (kind = "credential" /\ op[p] = "Import") => SegmentCount(loc[p].key) = 4
    /\ (Finished(p) /\ calls[p] = <<>>) => result[p].status # "ok"

\* a credential Create stopped by the second parent read
C17_Witness ==
  \E p \in Procs :
    /\ kind = "credential" /\ op[p] = "Create" /\ Failed(p)
    /\ Len(calls[p]) = 2
    /\ calls[p][2].resp.code = StatusInternalServerError
    /\ result[p] = StatusError

(***************************************************************************)
(* C18.  Create is atomic for its caller: whenever a Create returns an     *)
(* error, at whichever step, the id of the ResourceData is empty, also     *)
(* when the POST had been accepted and the appliance holds the record.     *)
(***************************************************************************)
C18_FailedCreateUnbound ==
  \A p \in Procs :
    (kind \in Resources /\ op[p] = "Create" /\ Failed(p)) => d[p].id = ""

(***************************************************************************)
(* C19.  The PUT of an Update never carries a changed force-replace field  *)
(* (authentication_name of the LDAP external authentication; device_id,    *)
(* domain_id, account_id and type of the credential).  In every step: the  *)
(* Update is entered with the values of those fields the state held; a PUT *)
(* is sent by an Update only, to the parents and with the name or type of  *)
(* the ResourceData it was given; and no record the appliance keeps under  *)
(* an id changes its name, its type or its parents.  A change of such a    *)
(* field can so reach the appliance only as a DELETE and a POST.           *)
(***************************************************************************)
\* the force-replace fields of a ResourceData
ForceNewOf(dd) ==
  CASE kind = "ldap" -> <<dd.authentication_name>>
    [] kind = "credential" -> <<dd.device_id, dd.domain_id, dd.account_id, dd.type>>
    [] OTHER -> <<>>

\* the same fields as a record of the appliance holds them
ForceNewOfRecord(e) ==
  CASE kind = "ldap" -> <<e.rec.AuthenticationName>>
    [] kind = "credential" -> e.loc \o <<e.rec.Type>>
    [] OTHER -> <<>>

\* the same fields as a PUT carries them, in its path and in its body
ForceNewOfPut(c, dd) ==
  CASE kind = "ldap" ->
         IF c.path = "/externalauths/" \o dd.id
         THEN <<c.body.AuthenticationName>> ELSE <<>>
    [] kind = "credential" ->
         IF c.path = credentialsPath(dd.device_id, dd.domain_id, dd.account_id) \o dd.id
         THEN <<dd.device_id, dd.domain_id, dd.account_id, c.body.Type>> ELSE <<>>
    [] OTHER -> <<>>

C19_Step ==
  /\ \A p \in Procs :
       (op'[p] = "Update" /\ pc'[p] = "entry" /\ pc[p] # "entry") =>
         /\ ForceNewOf(d'[p]) = ForceNewOf(d[p])
         /\ d'[p].id = d[p].id
  /\ \A p \in Procs :
       (/\ Len(calls'[p]) = Len(calls[p]) + 1
        /\ calls'[p][Len(calls'[p])].method = "PUT") =>
         /\ op[p] = "Update"
         /\ kind \in {"ldap", "credential"} =>
              ForceNewOfPut(calls'[p][Len(calls'[p])], given[p]) = ForceNewOf(given[p])
  /\ \A i \in 1..Len(remote) :
       \A j \in 1..Len(remote') :
         remote[i].rec.ID = remote'[j].rec.ID =>
           ForceNewOfRecord(remote[i]) = ForceNewOfRecord(remote'[j])

C19_ForceNewNeverPut == [][C19_Step]_vars

\* an Update of ldap1 that changed its port and was accepted
C19_Witness ==
  \E p \in Procs :
    /\ kind = "ldap" /\ op[p] = "Update" /\ calls[p] # <<>>
    /\ calls[p][1].method = "PUT" /\ ~calls[p][1].resp.err
    /\ calls[p][1].resp.code \in {StatusOK, StatusNoContent}
    /\ calls[p][1].body.AuthenticationName = "ldap1"
    /\ calls[p][1].body.Port = 636
    /\ \E i \in 1..Len(remote) :
         remote[i].rec.ID = given[p].id /\ remote[i].rec.Port = 636

(***************************************************************************)
(* C20.  Credential encoding sends only the secrets of the declared type.  *)
(* Every POST and PUT of a credential carries the declared type and no id  *)
(* or public key; for type "password" it carries the password and neither  *)
(* private_key nor passphrase; for type "ssh_key" it carries no password,  *)
(* the POST of Create carries private_key and passphrase as declared, and  *)
(* the PUT of Update carries neither when the private_key held starts with *)
(* "generate:" and both otherwise.                                         *)
(***************************************************************************)
\* the private keys of the configurations that start with "generate:"
GeneratedKeys == {"generate:RSA_2048"}

C20_CredentialSecrets ==
  \A p \in Procs :
    \A i \in 1..Len(calls[p]) :
      (kind = "credential" /\ calls[p][i].method \in {"POST", "PUT"}) =>
        LET c == calls[p][i]
            x == given[p]
        IN /\ c.hasBody
           /\ c.method = "POST" <=> op[p] = "Create"
           /\ c.method = "PUT" <=> op[p] = "Update"
           /\ c.body.Type = x.type
           /\ c.body.ID = "" /\ c.body.PublicKey = ""
           /\ x.type \in {"password", "ssh_key"}
           /\ x.type = "password" =>
                /\ c.body.Password = x.password
                /\ c.body.PrivateKey = "" /\ c.body.Passphrase = ""
           /\ x.type = "ssh_key" =>
                /\ c.body.Password = ""
                /\ IF c.method = "PUT" /\ x.private_key \in GeneratedKeys
                   THEN c.body.PrivateKey = "" /\ c.body.Passphrase = ""
                   ELSE /\ c.body.PrivateKey = x.private_key
                        /\ c.body.Passphrase = x.passphrase

\* an Update that holds an appliance-generated key and a stray password
C20_Witness ==
  \E p \in Procs :
    /\ kind = "credential" /\ op[p] = "Update" /\ calls[p] # <<>>
    /\ calls[p][1].method = "PUT"
    /\ given[p].private_key = "generate:RSA_2048" /\ given[p].password = "stray"
    /\ calls[p][1].body = [zeroJsonDeviceLocalDomainAccountCredential
                             EXCEPT !.Type = "ssh_key"]

(***************************************************************************)
(* C21.  Import returns success only with a hydrated record: for the three *)
(* resources, when the search of an Import found the key and the item GET  *)
(* that follows is answered 404, the Import returns an error: it does not  *)
(* return a ResourceData with the id bound and the attributes of the zero  *)
(* record, and it does not panic.                                          *)
(***************************************************************************)
\* the Import's search found the key and its item GET was answered 404
ImportLostRecord(p) ==
  /\ kind \in Resources /\ op[p] = "Import" /\ Finished(p)
  /\ Len(calls[p]) = 2
  /\ ListsKey(kind, Wanted(p), calls[p][1])
  /\ calls[p][2].ep = "item"
  /\ ~calls[p][2].resp.err /\ calls[p][2].resp.code = StatusNotFound

C21_ImportHydrated ==
  \A p \in Procs :
    ImportLostRecord(p) =>
      /\ result[p].status # "panic"
      /\ ~(Succeeded(p) /\ d[p].id # "")
      /\ Failed(p)

(***************************************************************************)
(* Two reconcilers at once: the plugin host runs the handlers of distinct  *)
(* resource addresses in parallel, and nothing in the provider orders      *)
(* them.                                                                   *)
(***************************************************************************)
\* each of the two is at the last operation of its run
InitParallel == InitAfter(Procs, MaxOps - 1)

SpecParallel == InitParallel /\ [][Next]_vars

(***************************************************************************)
(* C22.  No duplicate identity is ever created: in every interleaving of   *)
(* two Create invocations that carry the same identity key, at most one of *)
(* them issues a POST, the appliance never holds two records with that     *)
(* identity key, and the two invocations never bind the same id.           *)
(***************************************************************************)
\* the identity key Create searches before and after its POST
IdentityKey(k, dd) ==
  CASE k = "application" -> <<dd.application_name>>
    [] k = "ldap" -> <<dd.authentication_name>>
    [] k = "credential" -> <<dd.device_id, dd.domain_id, dd.account_id, dd.type>>

\* p and q are two Create invocations of the same identity key
SameKeyCreates(p, q) ==
  /\ kind \in Resources /\ p # q
  /\ op[p] = "Create" /\ op[q] = "Create"
  /\ IdentityKey(kind, given[p]) = IdentityKey(kind, given[q])

Posted(p) == \E i \in 1..Len(calls[p]) : calls[p][i].method = "POST"

\* two records of one collection hold the identity key of dd
HeldTwice(dd) ==
  \E i, j \in 1..Len(remote) :
    /\ i < j /\ remote[i].loc = remote[j].loc
    /\ HoldsKey(kind, dd, ListView(remote[i].rec))
    /\ HoldsKey(kind, dd, ListView(remote[j].rec))

C22_NoDuplicateIdentity ==
  \A p, q \in Procs :
    SameKeyCreates(p, q) =>
      /\ ~(Posted(p) /\ Posted(q))
      /\ ~HeldTwice(given[p])
      /\ ~(Succeeded(p) /\ Succeeded(q) /\ d[p].id # "" /\ d[p].id = d[q].id)

====
